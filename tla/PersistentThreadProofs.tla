----------------------- MODULE PersistentThreadProofs -----------------------
(***************************************************************************)
(* Proofs about PersistentThread, for any threads of the application, any  *)
(* workers and any number of operations.                                   *)
(*                                                                         *)
(* What a thread has still to do is a chain of statements (Chain): each is *)
(* followed by what its function has next.  So the place of a thread, the  *)
(* name of its next statement, and the names that follow are all that the  *)
(* invariants need.  Solo is the one of a thread of its own, Grouped that  *)
(* of the elements of a group.                                             *)
(***************************************************************************)
EXTENDS PersistentThread, Induction, SequenceTheorems, FiniteSetTheorems

\* s is a sequence of statements in S, each is followed by one that N allows,
\* and the last is in L.
Chain(s, S, N, L) ==
    /\ s \in Seq(S)
    /\ \A i \in 1 .. Len(s) - 1 : <<s[i], s[i + 1]>> \in N
    /\ s # << >> => s[Len(s)] \in L

\* The statement x about w; the pairs of statements about w with these names.
Pairs(w, names) == {<<<<n[1], w>>, <<n[2], w>>>> : n \in names}

\* What a thread has to do with w, by the names of the statements.
NamedChain(s, w, names, pairs, last) ==
    Chain(s, names \X {w}, Pairs(w, pairs), last \X {w})

\* The names of the statements, and that of the next one.
Names(s) == {a[1] : a \in ToSet(s)}
Place(s) == IF s = << >> THEN "none" ELSE s[1][1]

\* The loop of init().
WorkerNames == {"while", "poll", "enter", "disable", "run", "running", "leave", "again",
                "wait call", "wait executing", "trigger"}
WorkerPairs == {
    <<"enter", "disable">>, <<"disable", "run">>, <<"run", "leave">>,
    <<"running", "leave">>, <<"leave", "again">>, <<"again", "while">>,
    <<"wait call", "trigger">>, <<"wait executing", "trigger">>, <<"trigger", "while">>}
WorkerLast == {"while", "poll"}
WorkerChain(s, w) == NamedChain(s, w, WorkerNames, WorkerPairs, WorkerLast)

\* The operations on a thread of its own.
SoloNames == {"wait call", "wait executing", "trigger", "set loop", "clear loop",
              "wait loop", "assign", "stop", "wait end", "forget"}
SoloPairs == {
    <<"wait call", "trigger">>, <<"wait executing", "trigger">>,
    <<"wait call", "set loop">>, <<"wait executing", "set loop">>,
    <<"set loop", "wait call">>, <<"clear loop", "wait loop">>,
    <<"wait loop", "wait call">>, <<"assign", "wait call">>,
    <<"stop", "wait end">>, <<"wait end", "forget">>}
SoloLast == {"wait call", "wait executing", "trigger", "assign", "forget"}
SoloChain(s, w) == NamedChain(s, w, SoloNames, SoloPairs, SoloLast)

\* The operations on a group.
GroupNames == {"wait call", "wait executing", "delete", "clear", "acquire", "stop", "wait end",
               "forget"}
GroupStatement == GroupNames \X Worker \cup {<<"trigger group", m_execute_start>>}
GroupNext == {n \in GroupStatement \X GroupStatement :
    \/ n[1][1] \in {"wait call", "wait executing"} /\ n[2][1] = "wait call"
    \/ n[1][1] = "delete" /\ n[2][1] = "clear" /\ n[1][2] = n[2][2]
    \/ n[1][1] = "clear" /\ n[2][1] = "acquire" /\ n[1][2] = n[2][2]
    \/ n[1][1] = "acquire" /\ n[2][1] = "delete"
    \/ n[1][1] = "forget" /\ n[2][1] = "stop"
    \/ n[1][1] = "stop" /\ n[2][1] = "wait end" /\ n[1][2] = n[2][2]
    \/ n[1][1] = "wait end" /\ n[2][1] = "forget" /\ n[1][2] = n[2][2]}
GroupLast ==
    {"wait call", "wait executing", "acquire", "forget"} \X Worker
    \cup {<<"trigger group", m_execute_start>>}
GroupChain(s) == Chain(s, GroupStatement, GroupNext, GroupLast)

\* The worker has decided to run and not begun to.
Early == {"enter", "disable", "run"}

-----------------------------------------------------------------------------
(* A thread of its own, w *)

\* No other worker has anything to do.
SoloChains(w) ==
    /\ \A v \in Worker : IF v = w THEN WorkerChain(todo[w], w) ELSE todo[v] = << >>
    /\ \A c \in App : SoloChain(todo[c], w)
    /\ \A c \in App : "set loop" \in Names(todo[c]) => "trigger" \in Names(todo[c])

\* The trigger is there until the worker disables it, and the run is marked from
\* before then until it has ended.
Marked(w) ==
    /\ m_call[w] = w
    /\ Place(todo[w]) \in {"enter", "disable"} => trigger[w]
    /\ m_executing[w] <=> Place(todo[w]) \in {"disable", "run", "running", "leave"}

\* Nobody loops; one thread triggers at a time.
NoLoop(w) ==
    /\ ~ m_loop[w]
    /\ Place(todo[w]) \notin {"wait call", "wait executing", "trigger"}
    /\ \A c \in App : "set loop" \notin Names(todo[c])
OneCaller(w) ==
    \A c, d \in App : "trigger" \in Names(todo[c]) /\ d # c => todo[d] = << >>

\* The worker has nothing to do and will not get anything to do.
Rests(w) == ~ trigger[w] /\ Place(todo[w]) \notin Early \cup {"running", "leave"}

\* What is true while nobody has looped and no two threads have called at once.
Orderly(w) ==
    /\ NoLoop(w) /\ OneCaller(w) /\ ~ broken
    /\ \A c \in App : Place(todo[c]) \in {"wait executing", "trigger"} => ~ trigger[w]
    /\ \A c \in App : Place(todo[c]) = "assign" => Rests(w)
    /\ \A c \in joined :
          /\ \A d \in App : "trigger" \notin Names(todo[d])
          /\ Place(todo[c]) \in {"none", "wait call", "wait executing"}
          /\ todo[c] = << >> => Rests(w)
    /\ owed = IF trigger[w] THEN 1 ELSE 0
    /\ todo[w] # << >> /\ ~ Rests(w) => m_function[w]
    /\ \A c \in App : "trigger" \in Names(todo[c]) => m_function[w] \/ Place(todo[c]) = "assign"

\* The runs that are yet to come when nobody calls and nobody loops.
Runs(w) == Place(todo[w]) = "run"
RunsAgain(w) == trigger[w] \/ Place(todo[w]) \in {"wait call", "wait executing", "trigger"}
ToCome(w) == (IF Runs(w) THEN 1 ELSE 0) + (IF RunsAgain(w) THEN 1 ELSE 0)
Stopped(w) ==
    IF stopped THEN /\ ~ m_loop[w]
                    /\ \A c \in App : "trigger" \notin Names(todo[c])
                    /\ late + ToCome(w) <= 1
               ELSE late = 0

\* The function is destroyed when the thread has ended.
Ended(w) == \A c \in App : Place(todo[c]) = "forget" => todo[w] = << >>

\* The trigger that the worker would wait for is there only if the application
\* has set it when the worker was not idle.
Untriggered(w) ==
    ~ crossed /\ trigger[w] =>
        Place(todo[w]) \notin {"run", "running", "leave", "again",
                              "wait call", "wait executing", "trigger"}

Solo(w) ==
    /\ SoloChains(w) /\ Marked(w) /\ Stopped(w)
    /\ ~ looped /\ ~ overlapped => Orderly(w)
    /\ Ended(w) /\ Untriggered(w)

-----------------------------------------------------------------------------
(* The elements of a group *)

GroupChains ==
    /\ \A v \in Worker : WorkerChain(todo[v], v)
    /\ \A c \in App : GroupChain(todo[c])
    /\ \A c, d \in App : todo[c] = << >> \/ d = c \/ todo[d] = << >>

\* compile() has returned.
Links == {"delete", "clear", "acquire"}
Ready == Compiled /\ \A c \in App : Place(todo[c]) \notin Links

\* Nothing of a group is triggered before it is compiled, and nothing loops.
CompiledFirst ==
    /\ ~ looped /\ ~ overlapped
    /\ \A v \in Worker :
          /\ ~ m_loop[v] /\ ~ trigger[v]
          /\ Place(todo[v]) \notin {"wait call", "wait executing", "trigger"}
          /\ Place(todo[v]) \in Early \cup {"running", "leave"} => Ready
          /\ m_executing[v] <=> Place(todo[v]) \in {"disable", "run", "running", "leave"}
    /\ trigger[m_execute_start] => Ready
    /\ \A c \in App : Place(todo[c]) \in {"trigger group", "wait call", "wait executing"} =>
          Ready

\* A trigger is gone while it is linked only, and only a worker that polls uses it.
Linked ==
    /\ broken => \E v \in Worker : PolledWhileLinked(v)
    /\ \A v \in Worker : Readable(v) \/ LinkUnderWay(v)

\* What ends is there until it has ended.
FunctionsThere ==
    /\ \A v \in Worker : m_function[v] \/ todo[v] = << >>
    /\ \A c \in App, v \in Worker :
          todo[c] # << >> /\ todo[c][1] = <<"forget", v>> => todo[v] = << >>

Waits(c) == Place(todo[c]) \in {"wait call", "wait executing"}

\* v is the one that cleared the trigger, or one that had begun a run before.
MayHaveRun(v) ==
    Place(todo[v]) = "run" \/ (v \in served /\ Place(todo[v]) \notin Early)
HasRun(v) == v \in served /\ Place(todo[v]) \notin Early \cup {"running", "leave"}

\* The thread c has yet to see that v does not execute.
WillCheck(c, v) ==
    <<"wait call", v>> \in ToSet(todo[c]) \/ <<"wait executing", v>> \in ToSet(todo[c])

\* A join that has seen the trigger cleared finds the worker that cleared it.
OneRuns ==
    /\ \A c \in App : Waits(c) => todo[c] = GroupJoin \/ ~ trigger[m_execute_start]
    /\ ~ trigger[m_execute_start] =>
          \E v \in Worker : MayHaveRun(v) /\ \A c \in App : Waits(c) => HasRun(v) \/ WillCheck(c, v)

\* Those that have decided to run and not begun to.
EarlyOnes == {v \in Worker : Place(todo[v]) \in Early}
GroupStopped ==
    IF stopped
    THEN /\ ~ trigger[m_execute_start]
         /\ \A c \in App : Place(todo[c]) # "trigger group"
         /\ late + Cardinality(EarlyOnes) < Cardinality(Worker)
    ELSE late = 0

Grouped ==
    GroupChains /\ CompiledFirst /\ Linked /\ FunctionsThere /\ OneRuns /\ GroupStopped

-----------------------------------------------------------------------------

TheWorker == CHOOSE w \in Worker : TRUE

IInv ==
    /\ TypeOK
    /\ \/ group = {} /\ Solo(TheWorker)
       \/ group = Worker /\ Grouped


-----------------------------------------------------------------------------
(* Chains *)

\* A sequence of one element, and one put before another.
LEMMA OneElement ==
    ASSUME NEW S, NEW a \in S
    PROVE  <<a>> \in Seq(S) /\ Len(<<a>>) = 1 /\ <<a>>[1] = a /\ <<a>> # << >>
OBVIOUS

LEMMA Pushed ==
    ASSUME NEW S, NEW a \in S, NEW r \in Seq(S)
    PROVE  /\ <<a>> \o r \in Seq(S) /\ <<a>> \o r # << >>
           /\ Len(<<a>> \o r) = Len(r) + 1
           /\ (<<a>> \o r)[1] = a
           /\ \A i \in 1 .. Len(r) : (<<a>> \o r)[i + 1] = r[i]
<1>1. <<a>> \in Seq(S) /\ Len(<<a>>) = 1 /\ <<a>>[1] = a
  BY OneElement
<1>2. PICK s \in Seq(S) : s = <<a>> /\ Len(s) = 1 /\ s[1] = a
  BY <1>1
<1>3. /\ s \o r \in Seq(S) /\ Len(s \o r) = Len(r) + 1 /\ (s \o r)[1] = a
      /\ \A i \in 1 .. Len(r) : (s \o r)[i + 1] = r[i]
  BY <1>2
<1>4. s \o r # << >>
  BY <1>3
<1>5. QED BY <1>2, <1>3, <1>4

\* What is left of a chain when its first statement has been executed.
LEMMA ChainTail ==
    ASSUME NEW S, NEW N, NEW L, NEW s, Chain(s, S, N, L), s # << >>
    PROVE  /\ Chain(Tail(s), S, N, L)
           /\ s[1] \in S /\ Head(s) = s[1]
           /\ Tail(s) # << >> => <<s[1], Tail(s)[1]>> \in N
           /\ Tail(s) = << >> => s[1] \in L
           /\ ToSet(s) = {s[1]} \cup ToSet(Tail(s))
<1>1. /\ s \in Seq(S)
      /\ \A i \in 1 .. Len(s) - 1 : <<s[i], s[i + 1]>> \in N
      /\ s[Len(s)] \in L
  BY DEF Chain
<1>2. PICK r \in Seq(S) :
         r = Tail(s) /\ Len(r) = Len(s) - 1 /\ \A i \in 1 .. Len(r) : r[i] = s[i + 1]
  <2>1. /\ Tail(s) \in Seq(S) /\ Len(Tail(s)) = Len(s) - 1
        /\ \A i \in 1 .. Len(Tail(s)) : Tail(s)[i] = s[i + 1]
    BY <1>1, HeadTailProperties
  <2>2. QED BY <2>1
<1>3. Len(s) \in Nat /\ Len(s) >= 1 /\ Len(r) \in Nat /\ s[1] \in S /\ Head(s) = s[1]
  BY <1>1
<1>4. \A i \in 1 .. Len(r) - 1 : <<r[i], r[i + 1]>> \in N
  <2>1. TAKE i \in 1 .. Len(r) - 1
  <2>2. i + 1 \in 1 .. Len(s) - 1 /\ r[i] = s[i + 1] /\ r[i + 1] = s[(i + 1) + 1]
    BY <1>2, <1>3
  <2>3. QED BY <1>1, <2>2
<1>5. r # << >> => r[Len(r)] = s[Len(s)] /\ r[1] = s[1 + 1] /\ 1 \in 1 .. Len(s) - 1
  BY <1>2, <1>3
<1>6. Chain(r, S, N, L)
  BY <1>1, <1>4, <1>5 DEF Chain
<1>7. r = << >> => s[1] \in L
  <2>1. r = << >> => Len(r) = 0
    OBVIOUS
  <2>2. r = << >> => Len(s) = 1
    BY <1>2, <1>3, <2>1
  <2>3. QED BY <1>1, <2>2
<1>8. r # << >> => <<s[1], r[1]>> \in N
  BY <1>1, <1>5
<1>9. ToSet(s) = {s[1]} \cup ToSet(r)
  <2>1. DOMAIN s = 1 .. Len(s) /\ DOMAIN r = 1 .. Len(r)
    BY <1>1
  <2>2. ASSUME NEW i \in DOMAIN s PROVE s[i] \in {s[1]} \cup ToSet(r)
    <3>1. CASE i = 1
      BY <3>1
    <3>2. CASE i # 1
      <4>1. i - 1 \in DOMAIN r /\ r[i - 1] = s[i]
        BY <1>2, <1>3, <2>1, <3>2
      <4>2. QED BY <4>1 DEF ToSet
    <3>3. QED BY <3>1, <3>2
  <2>3. ASSUME NEW i \in DOMAIN r PROVE r[i] \in ToSet(s)
    <3>1. i + 1 \in DOMAIN s /\ s[i + 1] = r[i]
      BY <1>2, <1>3, <2>1
    <3>2. QED BY <3>1 DEF ToSet
  <2>4. s[1] \in ToSet(s)
    BY <1>3, <2>1 DEF ToSet
  <2>5. QED BY <2>2, <2>3, <2>4 DEF ToSet
<1>10. QED BY <1>2, <1>3, <1>6, <1>7, <1>8, <1>9

\* A statement before a chain.
LEMMA ChainPush ==
    ASSUME NEW S, NEW N, NEW L, NEW r, Chain(r, S, N, L), NEW a \in S,
           r # << >> => <<a, r[1]>> \in N, r = << >> => a \in L
    PROVE  /\ Chain(<<a>> \o r, S, N, L)
           /\ <<a>> \o r # << >> /\ (<<a>> \o r)[1] = a
           /\ ToSet(<<a>> \o r) = {a} \cup ToSet(r)
<1>1. r \in Seq(S)
  BY DEF Chain
<1>2. PICK s \in Seq(S) :
         /\ s = <<a>> \o r /\ s # << >> /\ Len(s) = Len(r) + 1 /\ s[1] = a
         /\ \A i \in 1 .. Len(r) : s[i + 1] = r[i]
  <2>1. /\ <<a>> \o r \in Seq(S) /\ <<a>> \o r # << >> /\ Len(<<a>> \o r) = Len(r) + 1
        /\ (<<a>> \o r)[1] = a /\ \A i \in 1 .. Len(r) : (<<a>> \o r)[i + 1] = r[i]
    BY <1>1, Pushed
  <2>2. QED BY <2>1
<1>3. Len(r) \in Nat
  BY <1>1
<1>4. ASSUME NEW i \in 1 .. Len(s) - 1 PROVE <<s[i], s[i + 1]>> \in N
  <2>1. CASE i = 1
    <3>1. r # << >> /\ s[i + 1] = r[1]
      BY <1>1, <1>2, <1>3, <2>1
    <3>2. QED BY <1>2, <2>1, <3>1
  <2>2. CASE i # 1
    <3>1. PICK j \in 1 .. Len(r) - 1 : i = j + 1
      <4>1. i - 1 \in 1 .. Len(r) - 1 /\ i = (i - 1) + 1
        BY <1>2, <1>3, <2>2
      <4>2. QED BY <4>1
    <3>2. s[i] = r[j] /\ s[i + 1] = r[j + 1]
      BY <1>2, <1>3, <3>1
    <3>3. QED BY <3>1, <3>2 DEF Chain
  <2>3. QED BY <2>1, <2>2
<1>5. s[Len(s)] \in L
  <2>1. CASE r = << >>
    BY <1>2, <2>1
  <2>2. CASE r # << >>
    <3>1. s[Len(s)] = r[Len(r)]
      BY <1>1, <1>2, <1>3, <2>2
    <3>2. QED BY <2>2, <3>1 DEF Chain
  <2>3. QED BY <2>1, <2>2
<1>6. Chain(s, S, N, L)
  BY <1>4, <1>5 DEF Chain
<1>7. Tail(s) = r
  <2>1. PICK t \in Seq(S) :
           t = Tail(s) /\ Len(t) = Len(s) - 1 /\ \A i \in 1 .. Len(t) : t[i] = s[i + 1]
    <3>1. /\ Tail(s) \in Seq(S) /\ Len(Tail(s)) = Len(s) - 1
          /\ \A i \in 1 .. Len(Tail(s)) : Tail(s)[i] = s[i + 1]
      BY <1>2, HeadTailProperties
    <3>2. QED BY <3>1
  <2>2. Len(t) = Len(r) /\ \A i \in 1 .. Len(t) : t[i] = r[i]
    BY <1>2, <1>3, <2>1
  <2>3. t = r
    BY <1>1, <2>2, SeqEqual
  <2>4. QED BY <2>1, <2>3
<1>8. ToSet(s) = {a} \cup ToSet(r)
  <2>1. s # << >>
    BY <1>2
  <2>2. ToSet(s) = {s[1]} \cup ToSet(Tail(s))
    BY ONLY <1>6, <2>1, ChainTail
  <2>3. QED BY <1>2, <1>7, <2>2, Zenon
<1>9. QED BY <1>2, <1>6, <1>8

\* A chain that is not empty: its first statement and all of them.
Starts(s, a, S, N, L, A) ==
    Chain(s, S, N, L) /\ s # << >> /\ s[1] = a /\ ToSet(s) = A

\* Chains of one, two, three and five statements.
LEMMA ChainOne ==
    ASSUME NEW S, NEW N, NEW L, NEW a \in S, a \in L
    PROVE  /\ Chain(<<a>>, S, N, L) /\ <<a>> # << >> /\ <<a>>[1] = a
           /\ ToSet(<<a>>) = {a} /\ Tail(<<a>>) = << >>
<1>1. PICK s \in Seq(S) : s = <<a>> /\ Len(s) = 1 /\ s[1] = a /\ s # << >>
  <2>1. <<a>> \in Seq(S) /\ Len(<<a>>) = 1 /\ <<a>>[1] = a /\ <<a>> # << >>
    BY OneElement
  <2>2. QED BY <2>1
<1>2. Chain(s, S, N, L)
  BY <1>1 DEF Chain
<1>3. ToSet(s) = {a}
  BY <1>1 DEF ToSet
<1>4. Tail(s) = << >>
  BY <1>1
<1>5. QED BY <1>1, <1>2, <1>3, <1>4

\* One chain behind another.
LEMMA ChainJoin ==
    ASSUME NEW S, NEW N, NEW K, NEW L, NEW p, NEW r, p # << >>, r # << >>,
           Chain(p, S, N, K), Chain(r, S, N, L), \A k \in K : <<k, r[1]>> \in N
    PROVE  Starts(p \o r, p[1], S, N, L, ToSet(p) \cup ToSet(r))
<1>1. p \in Seq(S) /\ r \in Seq(S)
  BY DEF Chain
<1>2. /\ p \o r \in Seq(S) /\ Len(p \o r) = Len(p) + Len(r)
      /\ \A i \in 1 .. Len(p) : (p \o r)[i] = p[i]
      /\ \A i \in 1 .. Len(r) : (p \o r)[i + Len(p)] = r[i]
  BY <1>1
<1>3. PICK s \in Seq(S) :
         /\ s = p \o r /\ Len(s) = Len(p) + Len(r)
         /\ \A i \in 1 .. Len(p) : s[i] = p[i]
         /\ \A i \in 1 .. Len(r) : s[i + Len(p)] = r[i]
  BY <1>2
<1>4. Len(p) \in Nat /\ Len(p) >= 1 /\ Len(r) \in Nat /\ Len(r) >= 1
  BY <1>1
<1>5. ASSUME NEW i \in 1 .. Len(s) - 1 PROVE <<s[i], s[i + 1]>> \in N
  <2>1. CASE i < Len(p)
    <3>1. i \in 1 .. Len(p) - 1 /\ s[i] = p[i] /\ s[i + 1] = p[i + 1]
      BY <1>3, <1>4, <2>1
    <3>2. QED BY <3>1 DEF Chain
  <2>2. CASE i = Len(p)
    <3>1. s[i] = p[Len(p)] /\ s[i + 1] = r[1]
      <4>1. s[1 + Len(p)] = r[1] /\ 1 + Len(p) = i + 1
        BY <1>3, <1>4, <2>2
      <4>2. QED BY <1>3, <1>4, <2>2, <4>1
    <3>2. QED BY <3>1 DEF Chain
  <2>3. CASE i > Len(p)
    <3>1. PICK j \in 1 .. Len(r) - 1 : i = j + Len(p)
      <4>1. i - Len(p) \in 1 .. Len(r) - 1 /\ i = (i - Len(p)) + Len(p)
        BY <1>3, <1>4, <2>3
      <4>2. QED BY <4>1
    <3>2. s[i] = r[j] /\ s[i + 1] = r[j + 1]
      <4>1. s[(j + 1) + Len(p)] = r[j + 1] /\ (j + 1) + Len(p) = i + 1
        BY <1>3, <1>4, <3>1
      <4>2. QED BY <1>3, <1>4, <3>1, <4>1
    <3>3. QED BY <3>1, <3>2 DEF Chain
  <2>4. i < Len(p) \/ i = Len(p) \/ i > Len(p)
    BY <1>3, <1>4
  <2>5. QED BY <2>1, <2>2, <2>3, <2>4
<1>6. s # << >> /\ s[1] = p[1] /\ s[Len(s)] = r[Len(r)]
  <2>1. s[Len(r) + Len(p)] = r[Len(r)] /\ Len(r) + Len(p) = Len(s)
    BY <1>3, <1>4
  <2>2. QED BY <1>3, <1>4, <2>1
<1>7. Chain(s, S, N, L)
  BY <1>5, <1>6 DEF Chain
<1>8. ToSet(s) = ToSet(p) \cup ToSet(r)
  <2>1. DOMAIN s = 1 .. Len(s) /\ DOMAIN p = 1 .. Len(p) /\ DOMAIN r = 1 .. Len(r)
    BY <1>1
  <2>2. ASSUME NEW i \in DOMAIN s PROVE s[i] \in ToSet(p) \cup ToSet(r)
    <3>1. CASE i <= Len(p)
      <4>1. i \in DOMAIN p /\ s[i] = p[i]
        BY <1>3, <2>1, <3>1
      <4>2. QED BY <4>1 DEF ToSet
    <3>2. CASE i > Len(p)
      <4>1. PICK j \in DOMAIN r : i = j + Len(p)
        <5>1. i - Len(p) \in DOMAIN r /\ i = (i - Len(p)) + Len(p)
          BY <1>3, <1>4, <2>1, <3>2
        <5>2. QED BY <5>1
      <4>2. s[i] = r[j]
        BY <1>3, <2>1, <4>1
      <4>3. QED BY <4>2 DEF ToSet
    <3>3. QED BY <1>4, <2>1, <3>1, <3>2
  <2>3. ASSUME NEW i \in DOMAIN p PROVE p[i] \in ToSet(s)
    <3>1. i \in DOMAIN s /\ s[i] = p[i]
      BY <1>3, <1>4, <2>1
    <3>2. QED BY <3>1 DEF ToSet
  <2>4. ASSUME NEW i \in DOMAIN r PROVE r[i] \in ToSet(s)
    <3>1. i + Len(p) \in DOMAIN s /\ s[i + Len(p)] = r[i]
      BY <1>3, <1>4, <2>1
    <3>2. QED BY <3>1 DEF ToSet
  <2>5. QED BY <2>2, <2>3, <2>4 DEF ToSet
<1>9. QED BY <1>3, <1>6, <1>7, <1>8 DEF Starts

LEMMA ChainThree ==
    ASSUME NEW S, NEW N, NEW L, NEW a \in S, NEW b \in S, NEW c \in S,
           <<a, b>> \in N, <<b, c>> \in N, c \in L
    PROVE  /\ Chain(<<a, b, c>>, S, N, L) /\ <<a, b, c>> # << >>
           /\ <<a, b, c>>[1] = a /\ ToSet(<<a, b, c>>) = {a, b, c}
<1>1. PICK s \in Seq(S) :
         s = <<a, b, c>> /\ Len(s) = 3 /\ s[1] = a /\ s[2] = b /\ s[3] = c /\ s # << >>
  <2>1. <<a, b, c>> \in Seq(S)
    OBVIOUS
  <2>2. QED BY <2>1
<1>2. Chain(s, S, N, L)
  BY <1>1 DEF Chain
<1>3. ToSet(s) = {a, b, c}
  BY <1>1 DEF ToSet
<1>4. QED BY <1>1, <1>2, <1>3

LEMMA ChainFive ==
    ASSUME NEW S, NEW N, NEW L,
           NEW a \in S, NEW b \in S, NEW c \in S, NEW d \in S, NEW e \in S,
           <<a, b>> \in N, <<b, c>> \in N, <<c, d>> \in N, <<d, e>> \in N, e \in L
    PROVE  /\ Chain(<<a, b, c, d, e>>, S, N, L) /\ <<a, b, c, d, e>> # << >>
           /\ <<a, b, c, d, e>>[1] = a /\ ToSet(<<a, b, c, d, e>>) = {a, b, c, d, e}
<1>1. PICK s \in Seq(S) :
         /\ s = <<a, b, c, d, e>> /\ Len(s) = 5 /\ s # << >>
         /\ s[1] = a /\ s[2] = b /\ s[3] = c /\ s[4] = d /\ s[5] = e
  <2>1. <<a, b, c, d, e>> \in Seq(S)
    OBVIOUS
  <2>2. QED BY <2>1
<1>2. Chain(s, S, N, L)
  BY <1>1 DEF Chain
<1>3. ToSet(s) = {a, b, c, d, e}
  BY <1>1 DEF ToSet
<1>4. QED BY <1>1, <1>2, <1>3

\* To append a statement is to put a chain of one behind.
LEMMA AppendIs ==
    ASSUME NEW S, NEW s \in Seq(S), NEW a \in S
    PROVE  Append(s, a) = s \o <<a>>
<1>1. PICK t \in Seq(S) : t = <<a>> /\ Len(t) = 1 /\ t[1] = a
  <2>1. <<a>> \in Seq(S) /\ Len(<<a>>) = 1 /\ <<a>>[1] = a
    BY OneElement
  <2>2. QED BY <2>1
<1>2. Append(s, a) = s \o t
  BY <1>1
<1>3. QED BY <1>1, <1>2

LEMMA StartsOne ==
    ASSUME NEW S, NEW N, NEW L, NEW a \in S, a \in L
    PROVE  Starts(<<a>>, a, S, N, L, {a})
BY ChainOne DEF Starts

LEMMA StartsBefore ==
    ASSUME NEW S, NEW N, NEW L, NEW r, NEW b, NEW A, Starts(r, b, S, N, L, A),
           NEW a \in S, <<a, b>> \in N
    PROVE  Starts(<<a>> \o r, a, S, N, L, {a} \cup A)
<1>1. Chain(r, S, N, L) /\ r # << >> /\ <<a, r[1]>> \in N /\ ToSet(r) = A
  BY DEF Starts
<1>2. QED BY <1>1, ChainPush DEF Starts

LEMMA StartsThree ==
    ASSUME NEW S, NEW N, NEW L, NEW a \in S, NEW b \in S, NEW c \in S,
           <<a, b>> \in N, <<b, c>> \in N, c \in L
    PROVE  Starts(<<a, b, c>>, a, S, N, L, {a, b, c})
BY ChainThree DEF Starts

LEMMA StartsFive ==
    ASSUME NEW S, NEW N, NEW L,
           NEW a \in S, NEW b \in S, NEW c \in S, NEW d \in S, NEW e \in S,
           <<a, b>> \in N, <<b, c>> \in N, <<c, d>> \in N, <<d, e>> \in N, e \in L
    PROVE  Starts(<<a, b, c, d, e>>, a, S, N, L, {a, b, c, d, e})
BY ChainFive DEF Starts

LEMMA StartsJoined ==
    ASSUME NEW S, NEW N, NEW K, NEW L, NEW p, NEW r, NEW a, NEW b, NEW A, NEW B,
           Starts(p, a, S, N, K, A), Starts(r, b, S, N, L, B), \A k \in K : <<k, b>> \in N
    PROVE  Starts(p \o r, a, S, N, L, A \cup B)
<1>1. /\ p # << >> /\ r # << >> /\ Chain(p, S, N, K) /\ Chain(r, S, N, L)
      /\ \A k \in K : <<k, r[1]>> \in N
      /\ p[1] = a /\ ToSet(p) = A /\ ToSet(r) = B
  BY DEF Starts
<1>2. QED BY <1>1, ChainJoin

-----------------------------------------------------------------------------
(* The statements of the member functions are chains *)

LEMMA PairIs ==
    ASSUME NEW w, NEW names, NEW x, NEW y, <<x, y>> \in names
    PROVE  <<<<x, w>>, <<y, w>>>> \in Pairs(w, names)
<1>1. PICK n \in names : n = <<x, y>> /\ n[1] = x /\ n[2] = y
  OBVIOUS
<1>2. <<<<n[1], w>>, <<n[2], w>>>> \in Pairs(w, names)
  BY DEF Pairs
<1>3. QED BY <1>1, <1>2

LEMMA InPairs ==
    ASSUME NEW w, NEW names, \A n \in names : n = <<n[1], n[2]>>,
           NEW a, NEW b, <<a, b>> \in Pairs(w, names)
    PROVE  <<a[1], b[1]>> \in names /\ a = <<a[1], w>> /\ b = <<b[1], w>>
<1>1. PICK n \in names : a = <<n[1], w>> /\ b = <<n[2], w>>
  BY DEF Pairs
<1>2. a[1] = n[1] /\ b[1] = n[2]
  BY <1>1
<1>3. QED BY <1>1, <1>2

LEMMA AboutOne ==
    ASSUME NEW w, NEW a
    PROVE  About(w, <<a>>) = <<<<a, w>>>>
BY DEF About

LEMMA AboutThree ==
    ASSUME NEW w, NEW a, NEW b, NEW c
    PROVE  About(w, <<a, b, c>>) = <<<<a, w>>, <<b, w>>, <<c, w>>>>
BY DEF About

LEMMA AboutFive ==
    ASSUME NEW w, NEW a, NEW b, NEW c, NEW d, NEW e
    PROVE  About(w, <<a, b, c, d, e>>) = <<<<a, w>>, <<b, w>>, <<c, w>>, <<d, w>>, <<e, w>>>>
BY DEF About

\* A chain of statements about w that is not empty: its first name and all.
Named(s, w, first, all, names, pairs, last) ==
    Starts(s, <<first, w>>, names \X {w}, Pairs(w, pairs), last \X {w}, all \X {w})

LEMMA NamedOne ==
    ASSUME NEW w, NEW names, NEW pairs, NEW last, NEW x \in names, x \in last
    PROVE  Named(<<<<x, w>>>>, w, x, {x}, names, pairs, last)
<1>1. PICK S, L, a : S = names \X {w} /\ L = last \X {w} /\ a = <<x, w>>
  OBVIOUS
<1>2. a \in S /\ a \in L
  BY <1>1
<1>3. Starts(<<a>>, a, S, Pairs(w, pairs), L, {a})
  BY <1>2, StartsOne
<1>4. {a} = {x} \X {w}
  BY <1>1
<1>5. QED BY <1>1, <1>3, <1>4, Zenon DEF Named

LEMMA NamedBefore ==
    ASSUME NEW s, NEW w, NEW first, NEW all, NEW names, NEW pairs, NEW last,
           Named(s, w, first, all, names, pairs, last),
           NEW x \in names, <<x, first>> \in pairs
    PROVE  Named(<<<<x, w>>>> \o s, w, x, {x} \cup all, names, pairs, last)
<1>1. PICK S, N, L, a, b :
         /\ S = names \X {w} /\ N = Pairs(w, pairs) /\ L = last \X {w}
         /\ a = <<x, w>> /\ b = <<first, w>>
  OBVIOUS
<1>2. Starts(s, b, S, N, L, all \X {w})
  BY <1>1, Zenon DEF Named
<1>3. a \in S
  BY <1>1
<1>4. <<a, b>> \in N
  BY <1>1, PairIs, Zenon
<1>5. Starts(<<a>> \o s, a, S, N, L, {a} \cup (all \X {w}))
  BY <1>2, <1>3, <1>4, StartsBefore
<1>6. {a} \cup (all \X {w}) = ({x} \cup all) \X {w}
  BY <1>1
<1>7. QED BY <1>1, <1>5, <1>6, Zenon DEF Named

LEMMA NamedThree ==
    ASSUME NEW w, NEW names, NEW pairs, NEW last, NEW x \in names, NEW y \in names,
           NEW z \in names, <<x, y>> \in pairs, <<y, z>> \in pairs, z \in last
    PROVE  Named(About(w, <<x, y, z>>), w, x, {x, y, z}, names, pairs, last)
<1>1. PICK S, N, L, a, b, c :
         /\ S = names \X {w} /\ N = Pairs(w, pairs) /\ L = last \X {w}
         /\ a = <<x, w>> /\ b = <<y, w>> /\ c = <<z, w>>
  OBVIOUS
<1>2. a \in S /\ b \in S /\ c \in S /\ c \in L
  BY <1>1
<1>3. <<a, b>> \in N /\ <<b, c>> \in N
  BY <1>1, PairIs, Zenon
<1>4. Starts(<<a, b, c>>, a, S, N, L, {a, b, c})
  BY <1>2, <1>3, StartsThree
<1>5. {a, b, c} = {x, y, z} \X {w}
  BY <1>1
<1>6. About(w, <<x, y, z>>) = <<a, b, c>>
  BY <1>1, AboutThree, Zenon
<1>7. QED BY <1>1, <1>4, <1>5, <1>6, Zenon DEF Named

LEMMA NamedFive ==
    ASSUME NEW w, NEW names, NEW pairs, NEW last, NEW x \in names, NEW y \in names,
           NEW z \in names, NEW u \in names, NEW v \in names,
           <<x, y>> \in pairs, <<y, z>> \in pairs, <<z, u>> \in pairs, <<u, v>> \in pairs,
           v \in last
    PROVE  Named(About(w, <<x, y, z, u, v>>), w, x, {x, y, z, u, v}, names, pairs, last)
<1>1. PICK S, N, L, a, b, c, d, e :
         /\ S = names \X {w} /\ N = Pairs(w, pairs) /\ L = last \X {w}
         /\ a = <<x, w>> /\ b = <<y, w>> /\ c = <<z, w>> /\ d = <<u, w>> /\ e = <<v, w>>
  OBVIOUS
<1>2. a \in S /\ b \in S /\ c \in S /\ d \in S /\ e \in S /\ e \in L
  BY <1>1
<1>3. <<a, b>> \in N /\ <<b, c>> \in N /\ <<c, d>> \in N /\ <<d, e>> \in N
  BY <1>1, PairIs, Zenon
<1>4. Starts(<<a, b, c, d, e>>, a, S, N, L, {a, b, c, d, e})
  BY <1>2, <1>3, StartsFive
<1>5. {a, b, c, d, e} = {x, y, z, u, v} \X {w}
  BY <1>1
<1>6. About(w, <<x, y, z, u, v>>) = <<a, b, c, d, e>>
  BY <1>1, AboutFive, Zenon
<1>7. QED BY <1>1, <1>4, <1>5, <1>6, Zenon DEF Named

LEMMA NamedJoined ==
    ASSUME NEW p, NEW r, NEW w, NEW first, NEW next, NEW A, NEW B, NEW names, NEW pairs,
           NEW end, NEW last, Named(p, w, first, A, names, pairs, {end}),
           Named(r, w, next, B, names, pairs, last), <<end, next>> \in pairs
    PROVE  Named(p \o r, w, first, A \cup B, names, pairs, last)
<1>1. PICK S, N, K, L, a, b :
         /\ S = names \X {w} /\ N = Pairs(w, pairs) /\ K = {end} \X {w} /\ L = last \X {w}
         /\ a = <<first, w>> /\ b = <<next, w>>
  OBVIOUS
<1>2. Starts(p, a, S, N, K, A \X {w}) /\ Starts(r, b, S, N, L, B \X {w})
  BY <1>1, Zenon DEF Named
<1>3. \A k \in K : <<k, b>> \in N
  <2>1. TAKE k \in K
  <2>2. k = <<end, w>>
    BY <1>1
  <2>3. QED BY <1>1, <2>2, PairIs, Zenon
<1>4. Starts(p \o r, a, S, N, L, (A \X {w}) \cup (B \X {w}))
  BY <1>2, <1>3, StartsJoined
<1>5. (A \X {w}) \cup (B \X {w}) = (A \cup B) \X {w}
  OBVIOUS
<1>6. QED BY <1>1, <1>4, <1>5, Zenon DEF Named

LEMMA NamedIs ==
    ASSUME NEW s, NEW w, NEW first, NEW all, NEW names, NEW pairs, NEW last,
           Named(s, w, first, all, names, pairs, last)
    PROVE  NamedChain(s, w, names, pairs, last) /\ s # << >> /\ Place(s) = first /\ Names(s) = all
<1>1. /\ Chain(s, names \X {w}, Pairs(w, pairs), last \X {w})
      /\ s # << >> /\ s[1] = <<first, w>> /\ ToSet(s) = all \X {w}
  BY Zenon DEF Named, Starts
<1>2. Place(s) = first
  BY <1>1 DEF Place
<1>3. Names(s) = all
  <2>1. PICK A : A = ToSet(s) /\ A = all \X {w}
    BY <1>1
  <2>2. {a[1] : a \in A} = all
    <3>1. ASSUME NEW x \in all PROVE x \in {a[1] : a \in A}
      <4>1. <<x, w>> \in A /\ <<x, w>>[1] = x
        BY <2>1
      <4>2. QED BY <4>1, Zenon
    <3>2. \A a \in A : a[1] \in all
      BY <2>1
    <3>3. QED BY <3>1, <3>2
  <2>3. QED BY <2>1, <2>2, Zenon DEF Names
<1>4. QED BY <1>1, <1>2, <1>3, Zenon DEF NamedChain

LEMMA IsNamed ==
    ASSUME NEW s, NEW w, NEW names, NEW pairs, NEW last,
           NamedChain(s, w, names, pairs, last), s # << >>
    PROVE  /\ Named(s, w, Place(s), Names(s), names, pairs, last)
           /\ Place(s) \in names /\ Place(s) \in Names(s)
<1>1. PICK S, N, L : /\ S = names \X {w} /\ N = Pairs(w, pairs) /\ L = last \X {w}
                     /\ Chain(s, S, N, L)
  BY Zenon DEF NamedChain
<1>2. s[1] \in S /\ ToSet(s) = {s[1]} \cup ToSet(Tail(s))
  <2>1. Chain(s, S, N, L)
    BY <1>1
  <2>2. QED BY ONLY <2>1, s # << >>, ChainTail
<1>3. \A a \in ToSet(s) : a \in S
  BY <1>1 DEF Chain, ToSet
<1>4. s[1] = <<s[1][1], w>> /\ s[1][1] \in names
  BY <1>1, <1>2
<1>5. Place(s) = s[1][1]
  BY DEF Place
<1>6. s[1] \in ToSet(s)
  BY <1>2
<1>7. ToSet(s) = Names(s) \X {w} /\ s[1][1] \in Names(s)
  <2>1. PICK A : A = ToSet(s)
    OBVIOUS
  <2>2. \A a \in A : a = <<a[1], w>>
    BY <1>1, <1>3, <2>1
  <2>3. A = {a[1] : a \in A} \X {w}
    BY <2>2
  <2>4. s[1][1] \in {a[1] : a \in A}
    BY <1>6, <2>1
  <2>5. QED BY <2>1, <2>3, <2>4, Zenon DEF Names
<1>8. Starts(s, <<Place(s), w>>, S, N, L, Names(s) \X {w})
  BY <1>1, <1>4, <1>5, <1>7, Zenon DEF Starts
<1>9. QED BY <1>1, <1>4, <1>5, <1>7, <1>8, Zenon DEF Named

LEMMA NamedEmpty ==
    ASSUME NEW w, NEW names, NEW pairs, NEW last
    PROVE  /\ NamedChain(<< >>, w, names, pairs, last)
           /\ Place(<< >>) = "none" /\ Names(<< >>) = {}
<1>1. PICK S, N, L : S = names \X {w} /\ N = Pairs(w, pairs) /\ L = last \X {w}
  OBVIOUS
<1>2. PICK s \in Seq(S) : s = << >> /\ Len(s) = 0
  <2>1. << >> \in Seq(S) /\ Len(<< >>) = 0
    OBVIOUS
  <2>2. QED BY <2>1
<1>3. Chain(s, S, N, L)
  <2>1. \A i \in 1 .. Len(s) - 1 : <<s[i], s[i + 1]>> \in N
    BY <1>2
  <2>2. QED BY <1>2, <2>1, Zenon DEF Chain
<1>4. Names(s) = {}
  BY <1>2 DEF Names, ToSet
<1>5. Place(<< >>) = "none"
  BY DEF Place
<1>6. NamedChain(<< >>, w, names, pairs, last)
  BY <1>1, <1>2, <1>3, Zenon DEF NamedChain
<1>7. QED BY <1>2, <1>4, <1>5, <1>6, Zenon

\* The statement at the head, and what follows it.
LEMMA NamedTail ==
    ASSUME NEW s, NEW w, NEW names, NEW pairs, NEW last,
           NamedChain(s, w, names, pairs, last), s # << >>,
           \A n \in pairs : n = <<n[1], n[2]>>
    PROVE  /\ NamedChain(Tail(s), w, names, pairs, last)
           /\ Head(s) = <<Place(s), w>>
           /\ Names(s) = {Place(s)} \cup Names(Tail(s))
           /\ Tail(s) # << >> => <<Place(s), Place(Tail(s))>> \in pairs
           /\ Tail(s) = << >> => Place(s) \in last
<1>1. PICK S, N, L : /\ S = names \X {w} /\ N = Pairs(w, pairs) /\ L = last \X {w}
                     /\ Chain(s, S, N, L)
  BY Zenon DEF NamedChain
<1>2. /\ Chain(Tail(s), S, N, L)
      /\ s[1] \in S /\ Head(s) = s[1]
      /\ Tail(s) # << >> => <<s[1], Tail(s)[1]>> \in N
      /\ Tail(s) = << >> => s[1] \in L
      /\ ToSet(s) = {s[1]} \cup ToSet(Tail(s))
  <2>1. Chain(s, S, N, L)
    BY <1>1
  <2>2. QED BY ONLY <2>1, s # << >>, ChainTail
<1>3. s[1] = <<s[1][1], w>> /\ Place(s) = s[1][1]
  BY <1>1, <1>2 DEF Place
<1>4. NamedChain(Tail(s), w, names, pairs, last)
  BY <1>1, <1>2, Zenon DEF NamedChain
<1>5. Head(s) = <<Place(s), w>>
  BY <1>2, <1>3, Zenon
<1>6. Names(s) = {Place(s)} \cup Names(Tail(s))
  <2>1. PICK A, B : A = ToSet(s) /\ B = ToSet(Tail(s))
    OBVIOUS
  <2>2. A = {s[1]} \cup B
    BY <1>2, <2>1, Zenon
  <2>3. {a[1] : a \in A} = {s[1][1]} \cup {a[1] : a \in B}
    BY <2>2
  <2>4. QED BY <1>3, <2>1, <2>3, Zenon DEF Names
<1>7. Tail(s) # << >> => <<Place(s), Place(Tail(s))>> \in pairs
  <2>1. SUFFICES ASSUME Tail(s) # << >> PROVE <<Place(s), Place(Tail(s))>> \in pairs
    OBVIOUS
  <2>2. <<s[1], Tail(s)[1]>> \in Pairs(w, pairs)
    BY <1>1, <1>2, <2>1, Zenon
  <2>3. <<s[1][1], Tail(s)[1][1]>> \in pairs
    BY <2>2, InPairs, Zenon
  <2>4. Place(Tail(s)) = Tail(s)[1][1]
    BY <2>1, Zenon DEF Place
  <2>5. QED BY <1>3, <2>3, <2>4, Zenon
<1>8. Tail(s) = << >> => Place(s) \in last
  BY <1>1, <1>2, <1>3
<1>9. QED BY <1>4, <1>5, <1>6, <1>7, <1>8

\* A statement put before what follows.
LEMMA NamedPush ==
    ASSUME NEW r, NEW w, NEW names, NEW pairs, NEW last, NEW x \in names,
           NamedChain(r, w, names, pairs, last),
           r # << >> => <<x, Place(r)>> \in pairs, r = << >> => x \in last
    PROVE  Named(<<<<x, w>>>> \o r, w, x, {x} \cup Names(r), names, pairs, last)
<1>1. CASE r # << >>
  <2>1. Named(r, w, Place(r), Names(r), names, pairs, last)
    BY <1>1, IsNamed
  <2>2. <<x, Place(r)>> \in pairs
    BY <1>1
  <2>3. QED BY <2>1, <2>2, NamedBefore
<1>2. CASE r = << >>
  <2>1. Named(<<<<x, w>>>>, w, x, {x}, names, pairs, last)
    BY <1>2, NamedOne
  <2>2. Names(r) = {}
    BY <1>2, NamedEmpty, Zenon
  <2>3. {x} \cup Names(r) = {x}
    BY <2>2
  <2>4. <<<<x, w>>>> \o r = <<<<x, w>>>>
    <3>1. PICK S : S = names \X {w}
      OBVIOUS
    <3>2. PICK a \in S : a = <<x, w>>
      BY <3>1
    <3>3. PICK t \in Seq(S) : t = <<a>>
      BY OneElement
    <3>4. t \o << >> = t
      BY <3>3, ConcatEmptySeq
    <3>5. QED BY <1>2, <3>2, <3>3, <3>4, Zenon
  <2>5. QED BY <2>1, <2>3, <2>4, Zenon
<1>3. QED BY <1>1, <1>2

\* call() ends an operation, or is what a worker does before it goes on.
LEMMA CallNamed ==
    ASSUME NEW w, NEW names, NEW pairs, NEW last, "wait call" \in names, "trigger" \in names,
           <<"wait call", "trigger">> \in pairs, "trigger" \in last
    PROVE  Named(call(w), w, "wait call", {"wait call", "trigger"}, names, pairs, last)
<1>1. Named(<<<<"trigger", w>>>>, w, "trigger", {"trigger"}, names, pairs, last)
  BY NamedOne
<1>2. Named(<<<<"wait call", w>>>> \o <<<<"trigger", w>>>>, w, "wait call",
            {"wait call"} \cup {"trigger"}, names, pairs, last)
  BY <1>1, NamedBefore
<1>3. {"wait call"} \cup {"trigger"} = {"wait call", "trigger"}
  OBVIOUS
<1>4. call(w) = <<<<"wait call", w>>>> \o <<<<"trigger", w>>>>
  <2>1. PICK S : S = names \X {w}
    OBVIOUS
  <2>2. PICK a \in S, b \in S : a = <<"wait call", w>> /\ b = <<"trigger", w>>
    BY <2>1
  <2>3. <<a>> \in Seq(S)
    BY OneElement
  <2>4. Append(<<a>>, b) = <<a>> \o <<b>>
    BY <2>3, AppendIs
  <2>5. QED BY <2>2, <2>4, Zenon DEF call, join_call
<1>5. QED BY <1>2, <1>3, <1>4, Zenon

\* What a worker does when it finds the trigger, before it polls again.
LEMMA RunNamed ==
    ASSUME NEW w
    PROVE  Named(Run(w), w, "enter", {"enter", "disable", "run", "leave", "again"},
                 WorkerNames, WorkerPairs, {"again"})
<1>1. /\ "enter" \in WorkerNames /\ "disable" \in WorkerNames /\ "run" \in WorkerNames
      /\ "leave" \in WorkerNames /\ "again" \in WorkerNames
  BY DEF WorkerNames
<1>2. /\ <<"enter", "disable">> \in WorkerPairs /\ <<"disable", "run">> \in WorkerPairs
      /\ <<"run", "leave">> \in WorkerPairs /\ <<"leave", "again">> \in WorkerPairs
  BY DEF WorkerPairs
<1>3. "again" \in {"again"}
  OBVIOUS
<1>4. QED BY <1>1, <1>2, <1>3, NamedFive, Zenon DEF Run

\* The operations on a thread of its own.
Opens(s, w, first, all) == Named(s, w, first, all, SoloNames, SoloPairs, SoloLast)

LEMMA SoloOpens ==
    ASSUME NEW w
    PROVE  /\ Opens(join_call(w), w, "wait call", {"wait call"})
           /\ Opens(call(w), w, "wait call", {"wait call", "trigger"})
           /\ Opens(loop(w), w, "wait call",
                    {"wait call"} \cup ({"set loop"} \cup {"wait call", "trigger"}))
           /\ Opens(join_loop(w), w, "wait loop", {"wait loop"} \cup {"wait call"})
           /\ Opens(stop_loop(w), w, "clear loop",
                    {"clear loop"} \cup ({"wait loop"} \cup {"wait call"}))
           /\ Opens(About(w, <<"assign">>), w, "assign", {"assign"})
           /\ Opens(About(w, <<"assign">>) \o call(w), w, "assign",
                    {"assign"} \cup {"wait call", "trigger"})
           /\ Opens(About(w, <<"assign">>) \o loop(w), w, "assign",
                    {"assign"} \cup ({"wait call"} \cup
                        ({"set loop"} \cup {"wait call", "trigger"})))
           /\ Opens(Destroy(w), w, "stop", {"stop", "wait end", "forget"})
<1>1. /\ "wait call" \in SoloLast /\ "assign" \in SoloLast /\ "trigger" \in SoloLast
      /\ "forget" \in SoloLast
  BY DEF SoloLast
<1>2. /\ "wait call" \in SoloNames /\ "wait loop" \in SoloNames /\ "clear loop" \in SoloNames
      /\ "assign" \in SoloNames /\ "stop" \in SoloNames /\ "wait end" \in SoloNames
      /\ "forget" \in SoloNames /\ "trigger" \in SoloNames /\ "set loop" \in SoloNames
  BY DEF SoloNames
<1>3. /\ <<"wait call", "trigger">> \in SoloPairs /\ <<"wait call", "set loop">> \in SoloPairs
      /\ <<"set loop", "wait call">> \in SoloPairs /\ <<"wait loop", "wait call">> \in SoloPairs
      /\ <<"clear loop", "wait loop">> \in SoloPairs /\ <<"assign", "wait call">> \in SoloPairs
      /\ <<"stop", "wait end">> \in SoloPairs /\ <<"wait end", "forget">> \in SoloPairs
  BY DEF SoloPairs
<1>4. Opens(join_call(w), w, "wait call", {"wait call"})
  BY <1>1, <1>2, NamedOne, Zenon DEF join_call, Opens
<1>5. Opens(call(w), w, "wait call", {"wait call", "trigger"})
  BY <1>1, <1>2, <1>3, CallNamed, Zenon DEF Opens
<1>6. Opens(loop(w), w, "wait call",
            {"wait call"} \cup ({"set loop"} \cup {"wait call", "trigger"}))
  <2>1. Opens(<<<<"set loop", w>>>> \o call(w), w, "set loop",
              {"set loop"} \cup {"wait call", "trigger"})
    BY <1>2, <1>3, <1>5, NamedBefore, Zenon DEF Opens
  <2>2. Opens(<<<<"wait call", w>>>> \o (<<<<"set loop", w>>>> \o call(w)), w, "wait call",
              {"wait call"} \cup ({"set loop"} \cup {"wait call", "trigger"}))
    BY <1>2, <1>3, <2>1, NamedBefore, Zenon DEF Opens
  <2>3. loop(w) = <<<<"wait call", w>>>> \o (<<<<"set loop", w>>>> \o call(w))
    <3>1. PICK S : S = SoloNames \X {w}
      OBVIOUS
    <3>2. PICK a \in S, b \in S : a = <<"wait call", w>> /\ b = <<"set loop", w>>
      BY <1>2, <3>1
    <3>3. call(w) \in Seq(S)
      BY <1>5, <3>1, Zenon DEF Opens, Named, Starts, Chain
    <3>4. PICK r \in Seq(S) : r = call(w)
      BY <3>3
    <3>5. <<a>> \in Seq(S) /\ <<b>> \in Seq(S)
      BY OneElement
    <3>6. Append(<<a>>, b) = <<a>> \o <<b>>
      BY <3>5, AppendIs
    <3>7. (<<a>> \o <<b>>) \o r = <<a>> \o (<<b>> \o r)
      BY <3>5, ConcatAssociative
    <3>8. loop(w) = Append(<<a>>, b) \o r
      BY <3>2, <3>4, Zenon DEF loop, join_call
    <3>9. QED BY <3>2, <3>4, <3>6, <3>7, <3>8, Zenon
  <2>4. QED BY <2>2, <2>3, Zenon
<1>7. Opens(join_loop(w), w, "wait loop", {"wait loop"} \cup {"wait call"})
  BY <1>2, <1>3, <1>4, NamedBefore, Zenon DEF join_loop, Opens
<1>8. Opens(stop_loop(w), w, "clear loop", {"clear loop"} \cup ({"wait loop"} \cup {"wait call"}))
  BY <1>2, <1>3, <1>7, NamedBefore, Zenon DEF stop_loop, Opens
<1>9. About(w, <<"assign">>) = <<<<"assign", w>>>>
  BY AboutOne
<1>10. Opens(About(w, <<"assign">>), w, "assign", {"assign"})
  BY <1>1, <1>2, <1>9, NamedOne, Zenon DEF Opens
<1>11. Opens(About(w, <<"assign">>) \o call(w), w, "assign",
             {"assign"} \cup {"wait call", "trigger"})
  BY <1>2, <1>3, <1>5, <1>9, NamedBefore, Zenon DEF Opens
<1>12. Opens(About(w, <<"assign">>) \o loop(w), w, "assign",
             {"assign"} \cup ({"wait call"} \cup ({"set loop"} \cup {"wait call", "trigger"})))
  BY <1>2, <1>3, <1>6, <1>9, NamedBefore, Zenon DEF Opens
<1>13. Opens(Destroy(w), w, "stop", {"stop", "wait end", "forget"})
  BY <1>1, <1>2, <1>3, NamedThree, Zenon DEF Destroy, Opens
<1>14. QED
  BY <1>4, <1>5, <1>6, <1>7, <1>8, <1>10, <1>11, <1>12, <1>13, Zenon

\* The same, by the name of the operation: which of them trigger, set the loop
\* and assign.
LEMMA StatementsOpen ==
    ASSUME NEW w, NEW op \in Operation
    PROVE  \E first \in {"wait call", "wait loop", "clear loop", "assign", "stop"},
              all \in SUBSET SoloNames :
              /\ Opens(Statements(w)[op], w, first, all)
              /\ first = "assign" <=> op \in Assigning
              /\ op = "join_call" => first = "wait call"
              /\ "trigger" \in all <=> op \in Triggering
              /\ "set loop" \in all <=> op \in Looping
<1>1. CASE op = "join_call"
  <2>1. PICK all : all = {"wait call"}
    OBVIOUS
  <2>2. Opens(Statements(w)[op], w, "wait call", all)
    BY <1>1, <2>1, SoloOpens DEF Statements
  <2>3. /\ all \in SUBSET SoloNames /\ "trigger" \notin all /\ "set loop" \notin all
        /\ "wait call" # "assign"
        /\ "wait call" \in {"wait call", "wait loop", "clear loop", "assign", "stop"}
    BY <2>1 DEF SoloNames
  <2>4. op \notin Triggering /\ op \notin Looping /\ op \notin Assigning
    BY <1>1 DEF Triggering, Looping, Assigning
  <2>5. QED BY <2>2, <2>3, <2>4, Zenon
<1>2. CASE op = "call"
  <2>1. PICK all : all = {"wait call", "trigger"}
    OBVIOUS
  <2>2. Opens(Statements(w)[op], w, "wait call", all)
    BY <1>2, <2>1, SoloOpens DEF Statements
  <2>3. /\ all \in SUBSET SoloNames /\ "trigger" \in all /\ "set loop" \notin all
        /\ "wait call" # "assign"
        /\ "wait call" \in {"wait call", "wait loop", "clear loop", "assign", "stop"}
    BY <2>1 DEF SoloNames
  <2>4. op \in Triggering /\ op \notin Looping /\ op \notin Assigning /\ op # "join_call"
    BY <1>2 DEF Triggering, Looping, Assigning
  <2>5. QED BY <2>2, <2>3, <2>4, Zenon
<1>3. CASE op = "loop"
  <2>1. PICK all : all = {"wait call"} \cup ({"set loop"} \cup {"wait call", "trigger"})
    OBVIOUS
  <2>2. Opens(Statements(w)[op], w, "wait call", all)
    BY <1>3, <2>1, SoloOpens DEF Statements
  <2>3. /\ all \in SUBSET SoloNames /\ "trigger" \in all /\ "set loop" \in all
        /\ "wait call" # "assign"
        /\ "wait call" \in {"wait call", "wait loop", "clear loop", "assign", "stop"}
    BY <2>1 DEF SoloNames
  <2>4. op \in Triggering /\ op \in Looping /\ op \notin Assigning /\ op # "join_call"
    BY <1>3 DEF Triggering, Looping, Assigning
  <2>5. QED BY <2>2, <2>3, <2>4, Zenon
<1>4. CASE op = "join_loop"
  <2>1. PICK all : all = {"wait loop"} \cup {"wait call"}
    OBVIOUS
  <2>2. Opens(Statements(w)[op], w, "wait loop", all)
    BY <1>4, <2>1, SoloOpens DEF Statements
  <2>3. /\ all \in SUBSET SoloNames /\ "trigger" \notin all /\ "set loop" \notin all
        /\ "wait loop" # "assign"
        /\ "wait loop" \in {"wait call", "wait loop", "clear loop", "assign", "stop"}
    BY <2>1 DEF SoloNames
  <2>4. op \notin Triggering /\ op \notin Looping /\ op \notin Assigning /\ op # "join_call"
    BY <1>4 DEF Triggering, Looping, Assigning
  <2>5. QED BY <2>2, <2>3, <2>4, Zenon
<1>5. CASE op = "stop_loop"
  <2>1. PICK all : all = {"clear loop"} \cup ({"wait loop"} \cup {"wait call"})
    OBVIOUS
  <2>2. Opens(Statements(w)[op], w, "clear loop", all)
    BY <1>5, <2>1, SoloOpens DEF Statements
  <2>3. /\ all \in SUBSET SoloNames /\ "trigger" \notin all /\ "set loop" \notin all
        /\ "clear loop" # "assign"
        /\ "clear loop" \in {"wait call", "wait loop", "clear loop", "assign", "stop"}
    BY <2>1 DEF SoloNames
  <2>4. op \notin Triggering /\ op \notin Looping /\ op \notin Assigning /\ op # "join_call"
    BY <1>5 DEF Triggering, Looping, Assigning
  <2>5. QED BY <2>2, <2>3, <2>4, Zenon
<1>6. CASE op = "assign"
  <2>1. PICK all : all = {"assign"}
    OBVIOUS
  <2>2. Opens(Statements(w)[op], w, "assign", all)
    BY <1>6, <2>1, SoloOpens DEF Statements
  <2>3. /\ all \in SUBSET SoloNames /\ "trigger" \notin all /\ "set loop" \notin all
        /\ "assign" = "assign"
        /\ "assign" \in {"wait call", "wait loop", "clear loop", "assign", "stop"}
    BY <2>1 DEF SoloNames
  <2>4. op \notin Triggering /\ op \notin Looping /\ op \in Assigning /\ op # "join_call"
    BY <1>6 DEF Triggering, Looping, Assigning
  <2>5. QED BY <2>2, <2>3, <2>4, Zenon
<1>7. CASE op = "call_with"
  <2>1. PICK all : all = {"assign"} \cup {"wait call", "trigger"}
    OBVIOUS
  <2>2. Opens(Statements(w)[op], w, "assign", all)
    BY <1>7, <2>1, SoloOpens DEF Statements
  <2>3. /\ all \in SUBSET SoloNames /\ "trigger" \in all /\ "set loop" \notin all
        /\ "assign" = "assign"
        /\ "assign" \in {"wait call", "wait loop", "clear loop", "assign", "stop"}
    BY <2>1 DEF SoloNames
  <2>4. op \in Triggering /\ op \notin Looping /\ op \in Assigning /\ op # "join_call"
    BY <1>7 DEF Triggering, Looping, Assigning
  <2>5. QED BY <2>2, <2>3, <2>4, Zenon
<1>8. CASE op = "loop_with"
  <2>1. PICK all : all = {"assign"} \cup ({"wait call"} \cup
                            ({"set loop"} \cup {"wait call", "trigger"}))
    OBVIOUS
  <2>2. Opens(Statements(w)[op], w, "assign", all)
    BY <1>8, <2>1, SoloOpens DEF Statements
  <2>3. /\ all \in SUBSET SoloNames /\ "trigger" \in all /\ "set loop" \in all
        /\ "assign" = "assign"
        /\ "assign" \in {"wait call", "wait loop", "clear loop", "assign", "stop"}
    BY <2>1 DEF SoloNames
  <2>4. op \in Triggering /\ op \in Looping /\ op \in Assigning /\ op # "join_call"
    BY <1>8 DEF Triggering, Looping, Assigning
  <2>5. QED BY <2>2, <2>3, <2>4, Zenon
<1>9. CASE op = "destroy"
  <2>1. PICK all : all = {"stop", "wait end", "forget"}
    OBVIOUS
  <2>2. Opens(Statements(w)[op], w, "stop", all)
    BY <1>9, <2>1, SoloOpens DEF Statements
  <2>3. /\ all \in SUBSET SoloNames /\ "trigger" \notin all /\ "set loop" \notin all
        /\ "stop" # "assign"
        /\ "stop" \in {"wait call", "wait loop", "clear loop", "assign", "stop"}
    BY <2>1 DEF SoloNames
  <2>4. op \notin Triggering /\ op \notin Looping /\ op \notin Assigning /\ op # "join_call"
    BY <1>9 DEF Triggering, Looping, Assigning
  <2>5. QED BY <2>2, <2>3, <2>4, Zenon
<1>10. QED
  BY <1>1, <1>2, <1>3, <1>4, <1>5, <1>6, <1>7, <1>8, <1>9 DEF Operation

-----------------------------------------------------------------------------
(* What threads do next *)

LEMMA NamedTyped ==
    ASSUME NEW s, NEW w \in Worker, NEW names \in SUBSET Name, NEW pairs, NEW last,
           NamedChain(s, w, names, pairs, last)
    PROVE  s \in Seq(Name \X (Worker \cup {m_execute_start}))
<1>1. PICK S, T : S = names \X {w} /\ T = Name \X (Worker \cup {m_execute_start})
  OBVIOUS
<1>2. s \in Seq(S)
  BY <1>1, Zenon DEF NamedChain, Chain
<1>3. S \subseteq T
  BY <1>1
<1>4. s \in Seq(T)
  <2>1. s \in [1 .. Len(s) -> S] /\ Len(s) \in Nat
    BY <1>2
  <2>2. \A i \in 1 .. Len(s) : s[i] \in T
    BY <1>3, <2>1
  <2>3. s \in [1 .. Len(s) -> T]
    BY <2>1, <2>2
  <2>4. QED BY <2>1, <2>3, SeqDef
<1>5. QED BY <1>1, <1>4, Zenon

LEMMA AnyPlace ==
    ASSUME NEW s, NEW w, NEW names, NEW pairs, NEW last, "none" \notin names,
           NamedChain(s, w, names, pairs, last)
    PROVE  /\ s = << >> <=> Place(s) = "none"
           /\ s = << >> => Names(s) = {}
           /\ s # << >> => Place(s) \in names /\ Place(s) \in Names(s)
<1>1. CASE s = << >>
  BY <1>1, NamedEmpty, Zenon
<1>2. CASE s # << >>
  <2>1. Place(s) \in names /\ Place(s) \in Names(s)
    BY <1>2, IsNamed
  <2>2. QED BY <1>2, <2>1, Zenon
<1>3. QED BY <1>1, <1>2

\* How a thread of the application goes on, from each place.
SoloMoves == SoloPairs \cup {<<x, "none">> : x \in SoloLast}

LEMMA SoloPlace ==
    ASSUME NEW s, NEW w, SoloChain(s, w)
    PROVE  /\ s = << >> <=> Place(s) = "none"
           /\ s = << >> => Names(s) = {}
           /\ s # << >> => Place(s) \in SoloNames /\ Place(s) \in Names(s)
<1>1. "none" \notin SoloNames
  BY DEF SoloNames
<1>2. QED BY <1>1, AnyPlace, Zenon DEF SoloChain

LEMMA SoloTail ==
    ASSUME NEW s, NEW w, SoloChain(s, w), s # << >>
    PROVE  /\ SoloChain(Tail(s), w)
           /\ Head(s) = <<Place(s), w>>
           /\ Names(s) = {Place(s)} \cup Names(Tail(s))
           /\ <<Place(s), Place(Tail(s))>> \in SoloMoves
           /\ Tail(s) # << >> => <<Place(s), Place(Tail(s))>> \in SoloPairs
           /\ Tail(s) = << >> => Place(s) \in SoloLast
<1>1. ASSUME NEW n \in SoloPairs PROVE n = <<n[1], n[2]>>
  <2>1. PICK x, y : n = <<x, y>>
    BY Zenon DEF SoloPairs
  <2>2. QED BY <2>1
<1>2. /\ SoloChain(Tail(s), w)
      /\ Head(s) = <<Place(s), w>>
      /\ Names(s) = {Place(s)} \cup Names(Tail(s))
      /\ Tail(s) # << >> => <<Place(s), Place(Tail(s))>> \in SoloPairs
      /\ Tail(s) = << >> => Place(s) \in SoloLast
  BY <1>1, NamedTail, Zenon DEF SoloChain
<1>3. <<Place(s), Place(Tail(s))>> \in SoloMoves
  <2>1. CASE Tail(s) = << >>
    <3>1. Place(Tail(s)) = "none"
      BY <1>2, <2>1, SoloPlace
    <3>2. QED BY <1>2, <2>1, <3>1 DEF SoloMoves
  <2>2. CASE Tail(s) # << >>
    BY <1>2, <2>2 DEF SoloMoves
  <2>3. QED BY <2>1, <2>2
<1>4. QED BY <1>2, <1>3

\* A wait that begins, or begins again.
LEMMA SoloWaits ==
    ASSUME NEW s, NEW w, SoloChain(s, w), s # << >>,
           Place(s) \in {"wait call", "wait executing"},
           NEW x \in {"wait call", "wait executing"}
    PROVE  /\ SoloChain(<<<<x, w>>>> \o Tail(s), w)
           /\ Place(<<<<x, w>>>> \o Tail(s)) = x
           /\ Names(<<<<x, w>>>> \o Tail(s)) = {x} \cup Names(Tail(s))
           /\ <<<<x, w>>>> \o Tail(s) # << >>
<1>1. PICK r : r = Tail(s)
  OBVIOUS
<1>2. /\ SoloChain(r, w)
      /\ r # << >> => <<Place(s), Place(r)>> \in SoloPairs
      /\ r = << >> => Place(s) \in SoloLast
  BY <1>1, SoloTail
<1>3. x \in SoloNames /\ x \in SoloLast
  BY DEF SoloNames, SoloLast
<1>4. r # << >> => <<x, Place(r)>> \in SoloPairs
  <2>1. PICK p, q : p = Place(s) /\ q = Place(r)
    OBVIOUS
  <2>2. <<p, q>> \in SoloPairs => q \in {"trigger", "set loop"}
    BY <2>1 DEF SoloPairs
  <2>3. q \in {"trigger", "set loop"} => <<x, q>> \in SoloPairs
    BY Zenon DEF SoloPairs
  <2>4. ASSUME r # << >> PROVE <<x, q>> \in SoloPairs
    <3>1. <<p, q>> \in SoloPairs
      BY <1>2, <2>1, <2>4, Zenon
    <3>2. QED BY <2>2, <2>3, <3>1, Zenon
  <2>5. QED BY <2>1, <2>4, Zenon
<1>5. Named(<<<<x, w>>>> \o r, w, x, {x} \cup Names(r), SoloNames, SoloPairs, SoloLast)
  <2>1. NamedChain(r, w, SoloNames, SoloPairs, SoloLast)
    BY <1>2 DEF SoloChain
  <2>2. (r # << >> => <<x, Place(r)>> \in SoloPairs) /\ (r = << >> => x \in SoloLast)
    BY <1>3, <1>4
  <2>3. x \in SoloNames
    BY <1>3
  <2>4. QED BY ONLY <2>1, <2>2, <2>3, NamedPush
<1>6. QED BY <1>1, <1>5, NamedIs, Zenon DEF SoloChain

\* A worker, from each place.
LEMMA WorkerPlace ==
    ASSUME NEW s, NEW w, WorkerChain(s, w)
    PROVE  /\ s = << >> <=> Place(s) = "none"
           /\ s # << >> => Place(s) \in WorkerNames /\ Place(s) \in Names(s)
<1>1. "none" \notin WorkerNames
  BY DEF WorkerNames
<1>2. QED BY <1>1, AnyPlace, Zenon DEF WorkerChain

LEMMA WorkerTail ==
    ASSUME NEW s, NEW w, WorkerChain(s, w), s # << >>
    PROVE  /\ WorkerChain(Tail(s), w)
           /\ Head(s) = <<Place(s), w>>
           /\ Place(s) \notin WorkerLast =>
                 Tail(s) # << >> /\ <<Place(s), Place(Tail(s))>> \in WorkerPairs
<1>1. ASSUME NEW n \in WorkerPairs PROVE n = <<n[1], n[2]>>
  <2>1. PICK x, y : n = <<x, y>>
    BY Zenon DEF WorkerPairs
  <2>2. QED BY <2>1
<1>2. /\ WorkerChain(Tail(s), w)
      /\ Head(s) = <<Place(s), w>>
      /\ Tail(s) # << >> => <<Place(s), Place(Tail(s))>> \in WorkerPairs
      /\ Tail(s) = << >> => Place(s) \in WorkerLast
  BY <1>1, NamedTail, Zenon DEF WorkerChain
<1>3. QED BY <1>2, Zenon

\* The statements that it puts before what follows.
LEMMA WorkerPush ==
    ASSUME NEW r, NEW w, WorkerChain(r, w), r # << >>,
           NEW x \in WorkerNames, <<x, Place(r)>> \in WorkerPairs
    PROVE  WorkerChain(<<<<x, w>>>> \o r, w) /\ Place(<<<<x, w>>>> \o r) = x
<1>1. NamedChain(r, w, WorkerNames, WorkerPairs, WorkerLast)
  BY DEF WorkerChain
<1>2. (r # << >> => <<x, Place(r)>> \in WorkerPairs) /\ (r = << >> => x \in WorkerLast)
  OBVIOUS
<1>3. Named(<<<<x, w>>>> \o r, w, x, {x} \cup Names(r), WorkerNames, WorkerPairs, WorkerLast)
  BY ONLY <1>1, <1>2, x \in WorkerNames, NamedPush
<1>4. QED BY <1>3, NamedIs, Zenon DEF WorkerChain

LEMMA WorkerJoined ==
    ASSUME NEW p, NEW first, NEW all, NEW end, NEW r, NEW w, WorkerChain(r, w), r # << >>,
           Named(p, w, first, all, WorkerNames, WorkerPairs, {end}),
           <<end, Place(r)>> \in WorkerPairs
    PROVE  WorkerChain(p \o r, w) /\ Place(p \o r) = first
<1>1. Named(r, w, Place(r), Names(r), WorkerNames, WorkerPairs, WorkerLast)
  BY IsNamed DEF WorkerChain
<1>2. Named(p \o r, w, first, all \cup Names(r), WorkerNames, WorkerPairs, WorkerLast)
  BY <1>1, NamedJoined
<1>3. QED BY <1>2, NamedIs, Zenon DEF WorkerChain

LEMMA WorkerLoops ==
    ASSUME NEW w, NEW x \in {"while", "poll"}
    PROVE  WorkerChain(<<<<x, w>>>>, w) /\ Place(<<<<x, w>>>>) = x /\ <<<<x, w>>>> # << >>
<1>1. x \in WorkerNames /\ x \in WorkerLast
  BY DEF WorkerNames, WorkerLast
<1>2. Named(<<<<x, w>>>>, w, x, {x}, WorkerNames, WorkerPairs, WorkerLast)
  BY <1>1, NamedOne
<1>3. QED BY <1>2, NamedIs, Zenon DEF WorkerChain

LEMMA NothingBefore ==
    ASSUME NEW r, NEW w, WorkerChain(r, w)
    PROVE  << >> \o r = r
<1>1. PICK S : S = WorkerNames \X {w}
  OBVIOUS
<1>2. r \in Seq(S)
  BY <1>1, Zenon DEF WorkerChain, NamedChain, Chain
<1>3. QED BY <1>2, ConcatEmptySeq

\* A worker that has a run to end is at one of its first steps.
LEMMA WorkingPlace ==
    ASSUME NEW s, NEW w, WorkerChain(s, w), NEW i \in DOMAIN s, s[i] = <<"leave", w>>
    PROVE  Place(s) \in Early \cup {"running", "leave"}
<1>1. /\ s \in Seq(WorkerNames \X {w})
      /\ \A k \in 1 .. Len(s) - 1 : <<s[k], s[k + 1]>> \in Pairs(w, WorkerPairs)
  BY Zenon DEF WorkerChain, NamedChain, Chain
<1>2. Len(s) \in Nat /\ DOMAIN s = 1 .. Len(s)
  BY <1>1
<1>3. ASSUME NEW n \in WorkerPairs PROVE n = <<n[1], n[2]>>
  <2>1. PICK x, y : n = <<x, y>>
    BY Zenon DEF WorkerPairs
  <2>2. QED BY <2>1
<1>4. ASSUME NEW k \in 1 .. Len(s) - 1 PROVE <<s[k][1], s[k + 1][1]>> \in WorkerPairs
  <2>1. <<s[k], s[k + 1]>> \in Pairs(w, WorkerPairs)
    BY <1>1
  <2>2. QED BY <1>3, <2>1, InPairs, Zenon
<1>5. s[i][1] = "leave" /\ i \in 1 .. Len(s)
  BY <1>2
<1>6. ASSUME NEW k \in 1 .. Len(s), k # 1
      PROVE  k - 1 \in 1 .. Len(s) /\ <<s[k - 1][1], s[k][1]>> \in WorkerPairs
  <2>1. k - 1 \in 1 .. Len(s) - 1 /\ (k - 1) + 1 = k /\ k - 1 \in 1 .. Len(s)
    BY <1>2, <1>6
  <2>2. <<s[k - 1][1], s[(k - 1) + 1][1]>> \in WorkerPairs
    BY <1>4, <2>1
  <2>3. QED BY <2>1, <2>2
<1>7. ASSUME NEW x, NEW y, <<x, y>> \in WorkerPairs
      PROVE  /\ y = "leave" => x = "run" \/ x = "running"
             /\ y = "run" => x = "disable"
             /\ y = "disable" => x = "enter"
             /\ y # "enter" /\ y # "running"
  BY <1>7 DEF WorkerPairs
<1>8. ASSUME NEW k \in 1 .. Len(s), s[k][1] = "enter" \/ s[k][1] = "running" PROVE k = 1
  BY <1>6, <1>7, <1>8
<1>9. ASSUME NEW k \in 1 .. Len(s), s[k][1] = "disable" PROVE k = 1 \/ s[1][1] = "enter"
  <2>1. SUFFICES ASSUME k # 1 PROVE s[1][1] = "enter"
    OBVIOUS
  <2>2. k - 1 \in 1 .. Len(s) /\ s[k - 1][1] = "enter"
    BY <1>6, <1>7, <1>9, <2>1
  <2>3. k - 1 = 1
    BY <1>8, <2>2
  <2>4. QED BY <2>2, <2>3
<1>10. ASSUME NEW k \in 1 .. Len(s), s[k][1] = "run"
       PROVE  k = 1 \/ s[1][1] = "enter" \/ s[1][1] = "disable"
  <2>1. SUFFICES ASSUME k # 1 PROVE s[1][1] = "enter" \/ s[1][1] = "disable"
    OBVIOUS
  <2>2. k - 1 \in 1 .. Len(s) /\ s[k - 1][1] = "disable"
    BY <1>6, <1>7, <1>10, <2>1
  <2>3. k - 1 = 1 \/ s[1][1] = "enter"
    BY <1>9, <2>2
  <2>4. QED BY <2>2, <2>3
<1>11. s[1][1] = "leave" \/ s[1][1] = "run" \/ s[1][1] = "running"
         \/ s[1][1] = "enter" \/ s[1][1] = "disable"
  <2>1. CASE i = 1
    BY <1>5, <2>1
  <2>2. CASE i # 1
    <3>1. i - 1 \in 1 .. Len(s) /\ (s[i - 1][1] = "run" \/ s[i - 1][1] = "running")
      BY <1>5, <1>6, <1>7, <2>2
    <3>2. CASE s[i - 1][1] = "run"
      <4>1. i - 1 = 1 \/ s[1][1] = "enter" \/ s[1][1] = "disable"
        BY <1>10, <3>1, <3>2
      <4>2. QED BY <3>2, <4>1
    <3>3. CASE s[i - 1][1] = "running"
      <4>1. i - 1 = 1
        BY <1>8, <3>1, <3>3
      <4>2. QED BY <3>3, <4>1
    <3>4. QED BY <3>1, <3>2, <3>3
  <2>3. QED BY <2>1, <2>2
<1>12. s # << >>
  BY <1>1, <1>2
<1>13. Place(s) = s[1][1]
  BY <1>12, Zenon DEF Place
<1>14. QED BY <1>11, <1>13 DEF Early

-----------------------------------------------------------------------------
(* The steps of a worker, of a group or not *)

Todo == [Thread -> Seq(Name \X (Worker \cup {m_execute_start}))]

\* The thread t has changed what it does next, and nobody else.
Moved(t) == todo' \in Todo /\ \A u \in Thread : u # t => todo'[u] = todo[u]

LEMMA WorkerAt ==
    ASSUME NEW w \in Worker, WorkerChain(todo[w], w), NEW x, NEW v, At(w, x, v)
    PROVE  v = w /\ Place(todo[w]) = x /\ todo[w] # << >>
<1>1. todo[w] # << >> /\ Head(todo[w]) = <<x, v>>
  BY DEF At
<1>2. Head(todo[w]) = <<Place(todo[w]), w>>
  BY <1>1, WorkerTail
<1>3. QED BY <1>1, <1>2

LEMMA WorkerMoved ==
    ASSUME TypeOK, NEW w \in Worker, NEW r, WorkerChain(r, w), todo' = [todo EXCEPT ![w] = r]
    PROVE  Moved(w) /\ todo'[w] = r
<1>1. todo \in Todo /\ w \in Thread
  BY DEF TypeOK, Todo, Thread
<1>2. WorkerNames \in SUBSET Name
  BY DEF WorkerNames, Name
<1>3. r \in Seq(Name \X (Worker \cup {m_execute_start}))
  BY <1>2, NamedTyped, Zenon DEF WorkerChain
<1>4. QED BY <1>1, <1>3 DEF Moved, Todo

LEMMA PollMoves ==
    ASSUME TypeOK, NEW w \in Worker, WorkerChain(todo[w], w), Poll(w)
    PROVE  /\ Moved(w) /\ WorkerChain(todo'[w], w)
           /\ \/ Place(todo[w]) = "while" /\ Place(todo'[w]) \in {"poll", "none"}
              \/ Place(todo[w]) = "poll" /\ Triggered(w) /\ Place(todo'[w]) = "enter"
              \/ Place(todo[w]) = "poll" /\ ~ Triggered(w) /\ Place(todo'[w]) = "while"
           /\ todo[w] # << >>
<1>1. PICK while, poll : while = <<<<"while", w>>>> /\ poll = <<<<"poll", w>>>>
  OBVIOUS
<1>2. /\ WorkerChain(while, w) /\ Place(while) = "while" /\ while # << >>
      /\ WorkerChain(poll, w) /\ Place(poll) = "poll"
  BY <1>1, WorkerLoops
<1>3. WorkerChain(<< >>, w) /\ Place(<< >>) = "none"
  BY NamedEmpty DEF WorkerChain
<1>4. WorkerChain(Run(w) \o while, w) /\ Place(Run(w) \o while) = "enter"
  <2>1. <<"again", "while">> \in WorkerPairs
    BY DEF WorkerPairs
  <2>2. <<"again", Place(while)>> \in WorkerPairs
    BY <1>2, <2>1
  <2>3. QED BY <1>2, <2>2, RunNamed, WorkerJoined
<1>5. << >> \o while = while
  BY <1>2, NothingBefore
<1>6. CASE At(w, "while", w) /\ GoTo(w, IF m_persist[w] THEN poll ELSE << >>)
  <2>1. PICK r : r = (IF m_persist[w] THEN poll ELSE << >>)
    OBVIOUS
  <2>2. todo' = [todo EXCEPT ![w] = r]
    BY <1>6, <2>1, Zenon DEF GoTo
  <2>3. WorkerChain(r, w) /\ Place(r) \in {"poll", "none"}
    BY <1>2, <1>3, <2>1
  <2>4. Moved(w) /\ todo'[w] = r
    BY <2>2, <2>3, WorkerMoved
  <2>5. Place(todo[w]) = "while" /\ todo[w] # << >>
    BY <1>6, WorkerAt, Zenon
  <2>6. QED BY <2>3, <2>4, <2>5
<1>7. CASE At(w, "poll", w) /\ GoTo(w, (IF Triggered(w) THEN Run(w) ELSE << >>) \o while)
  <2>1. PICK r : r = (IF Triggered(w) THEN Run(w) ELSE << >>) \o while
    OBVIOUS
  <2>2. todo' = [todo EXCEPT ![w] = r]
    BY <1>7, <2>1, Zenon DEF GoTo
  <2>3. /\ WorkerChain(r, w)
        /\ \/ Triggered(w) /\ Place(r) = "enter"
           \/ ~ Triggered(w) /\ Place(r) = "while"
    <3>1. CASE Triggered(w)
      <4>1. r = Run(w) \o while
        BY <2>1, <3>1, Zenon
      <4>2. QED BY <1>4, <3>1, <4>1, Zenon
    <3>2. CASE ~ Triggered(w)
      <4>1. r = while
        BY <1>5, <2>1, <3>2, Zenon
      <4>2. QED BY <1>2, <3>2, <4>1, Zenon
    <3>3. QED BY <3>1, <3>2
  <2>4. Moved(w) /\ todo'[w] = r
    BY <2>2, <2>3, WorkerMoved
  <2>5. Place(todo[w]) = "poll" /\ todo[w] # << >>
    BY <1>7, WorkerAt, Zenon
  <2>6. QED BY <2>3, <2>4, <2>5
<1>8. QED BY <1>1, <1>6, <1>7, Zenon DEF Poll

\* What follows the statement that has been executed.
LEMMA WorkerContinues ==
    ASSUME TypeOK, NEW w \in Worker, WorkerChain(todo[w], w), NEW x, x \notin WorkerLast,
           At(w, x, w), Continue(w)
    PROVE  /\ Moved(w) /\ WorkerChain(todo'[w], w) /\ Place(todo[w]) = x
           /\ todo[w] # << >> /\ todo'[w] # << >>
           /\ <<x, Place(todo'[w])>> \in WorkerPairs
<1>1. Place(todo[w]) = x /\ todo[w] # << >>
  BY WorkerAt
<1>2. todo' = [todo EXCEPT ![w] = Tail(todo[w])]
  BY DEF Continue, GoTo
<1>3. /\ WorkerChain(Tail(todo[w]), w) /\ Tail(todo[w]) # << >>
      /\ <<x, Place(Tail(todo[w]))>> \in WorkerPairs
  BY <1>1, WorkerTail
<1>4. Moved(w) /\ todo'[w] = Tail(todo[w])
  BY <1>2, <1>3, WorkerMoved
<1>5. QED BY <1>1, <1>3, <1>4, Zenon

\* The same, with a statement put before it.
LEMMA WorkerPuts ==
    ASSUME TypeOK, NEW w \in Worker, WorkerChain(todo[w], w), NEW x, x \notin WorkerLast,
           At(w, x, w), NEW y \in WorkerNames,
           \A z : <<x, z>> \in WorkerPairs => <<y, z>> \in WorkerPairs,
           GoTo(w, <<<<y, w>>>> \o Tail(todo[w]))
    PROVE  /\ Moved(w) /\ WorkerChain(todo'[w], w) /\ Place(todo[w]) = x
           /\ todo[w] # << >> /\ Place(todo'[w]) = y
<1>1. Place(todo[w]) = x /\ todo[w] # << >>
  BY WorkerAt
<1>2. PICK r : r = Tail(todo[w])
  OBVIOUS
<1>3. WorkerChain(r, w) /\ r # << >> /\ <<x, Place(r)>> \in WorkerPairs
  BY <1>1, <1>2, WorkerTail
<1>4. WorkerChain(<<<<y, w>>>> \o r, w) /\ Place(<<<<y, w>>>> \o r) = y
  BY <1>3, WorkerPush
<1>5. todo' = [todo EXCEPT ![w] = <<<<y, w>>>> \o r]
  BY <1>2, Zenon DEF GoTo
<1>6. Moved(w) /\ todo'[w] = <<<<y, w>>>> \o r
  BY <1>4, <1>5, WorkerMoved
<1>7. QED BY <1>1, <1>4, <1>6, Zenon

\* The thread t goes from the place x to y.
Goes(t, x, y) == Place(todo[t]) = x /\ Place(todo'[t]) = y

LEMMA RunMoves ==
    ASSUME TypeOK, NEW w \in Worker, WorkerChain(todo[w], w), RunStep(w)
    PROVE  /\ Moved(w) /\ WorkerChain(todo'[w], w) /\ todo[w] # << >> /\ todo'[w] # << >>
           /\ \/ /\ Goes(w, "enter", "disable")
                 /\ m_executing' = [m_executing EXCEPT ![w] = TRUE]
                 /\ UNCHANGED <<trigger, owed, broken, late, served>>
              \/ /\ Goes(w, "disable", "run")
                 /\ trigger' = [trigger EXCEPT ![m_call[w]] = FALSE]
                 /\ owed' = IF owed > 0 THEN owed - 1 ELSE 0
                 /\ UNCHANGED <<m_executing, broken, late, served>>
              \/ /\ Goes(w, "run", "running")
                 /\ broken' = (broken \/ ~ m_function[w])
                 /\ late' = IF stopped THEN late + 1 ELSE late
                 /\ served' = served \cup {w}
                 /\ UNCHANGED <<trigger, m_executing, owed>>
              \/ /\ Goes(w, "running", "leave")
                 /\ UNCHANGED <<trigger, m_executing, owed, broken, late, served>>
              \/ /\ Goes(w, "leave", "again")
                 /\ m_executing' = [m_executing EXCEPT ![w] = FALSE]
                 /\ UNCHANGED <<trigger, owed, broken, late, served>>
              \/ /\ Place(todo[w]) = "again"
                 /\ Place(todo'[w]) = IF m_loop[w] THEN "wait call" ELSE "while"
                 /\ UNCHANGED <<trigger, m_executing, owed, broken, late, served>>
<1>1. /\ "enter" \notin WorkerLast /\ "disable" \notin WorkerLast /\ "run" \notin WorkerLast
      /\ "running" \notin WorkerLast /\ "leave" \notin WorkerLast /\ "again" \notin WorkerLast
  BY DEF WorkerLast
<1>2. \A y : /\ <<"enter", y>> \in WorkerPairs => y = "disable"
             /\ <<"disable", y>> \in WorkerPairs => y = "run"
             /\ <<"run", y>> \in WorkerPairs => y = "leave"
             /\ <<"running", y>> \in WorkerPairs => y = "leave"
             /\ <<"leave", y>> \in WorkerPairs => y = "again"
             /\ <<"again", y>> \in WorkerPairs => y = "while"
  BY DEF WorkerPairs
<1>3. CASE /\ At(w, "enter", w) /\ Continue(w)
           /\ m_executing' = [m_executing EXCEPT ![w] = TRUE]
           /\ UNCHANGED <<trigger, owed, broken, late, served>>
  <2>1. /\ Moved(w) /\ WorkerChain(todo'[w], w) /\ Place(todo[w]) = "enter"
        /\ todo[w] # << >> /\ todo'[w] # << >>
        /\ <<"enter", Place(todo'[w])>> \in WorkerPairs
    BY <1>1, <1>3, WorkerContinues, Zenon
  <2>2. Place(todo'[w]) = "disable"
    BY <1>2, <2>1, Zenon
  <2>3. QED BY <1>3, <2>1, <2>2, Zenon DEF Goes
<1>4. CASE /\ At(w, "disable", w) /\ Continue(w)
           /\ trigger' = [trigger EXCEPT ![m_call[w]] = FALSE]
           /\ owed' = IF owed > 0 THEN owed - 1 ELSE 0
           /\ UNCHANGED <<m_executing, broken, late, served>>
  <2>1. /\ Moved(w) /\ WorkerChain(todo'[w], w) /\ Place(todo[w]) = "disable"
        /\ todo[w] # << >> /\ todo'[w] # << >>
        /\ <<"disable", Place(todo'[w])>> \in WorkerPairs
    BY <1>1, <1>4, WorkerContinues, Zenon
  <2>2. Place(todo'[w]) = "run"
    BY <1>2, <2>1, Zenon
  <2>3. QED BY <1>4, <2>1, <2>2, Zenon DEF Goes
<1>5. CASE /\ At(w, "run", w) /\ GoTo(w, <<<<"running", w>>>> \o Tail(todo[w]))
           /\ broken' = (broken \/ ~ m_function[w])
           /\ late' = IF stopped THEN late + 1 ELSE late
           /\ served' = served \cup {w}
           /\ UNCHANGED <<trigger, m_executing, owed>>
  <2>1. "running" \in WorkerNames /\ <<"running", "leave">> \in WorkerPairs
    BY DEF WorkerNames, WorkerPairs
  <2>2. \A z : <<"run", z>> \in WorkerPairs => <<"running", z>> \in WorkerPairs
    BY <1>2, <2>1, Zenon
  <2>3. /\ Moved(w) /\ WorkerChain(todo'[w], w) /\ Place(todo[w]) = "run"
        /\ todo[w] # << >> /\ Place(todo'[w]) = "running"
    BY <1>1, <1>5, <2>1, <2>2, WorkerPuts, Zenon
  <2>4. todo'[w] # << >>
    BY <2>3, WorkerPlace
  <2>5. QED BY <1>5, <2>3, <2>4, Zenon DEF Goes
<1>6. CASE /\ At(w, "running", w) /\ Continue(w)
           /\ UNCHANGED <<trigger, m_executing, owed, broken, late, served>>
  <2>1. /\ Moved(w) /\ WorkerChain(todo'[w], w) /\ Place(todo[w]) = "running"
        /\ todo[w] # << >> /\ todo'[w] # << >>
        /\ <<"running", Place(todo'[w])>> \in WorkerPairs
    BY <1>1, <1>6, WorkerContinues, Zenon
  <2>2. Place(todo'[w]) = "leave"
    BY <1>2, <2>1, Zenon
  <2>3. QED BY <1>6, <2>1, <2>2, Zenon DEF Goes
<1>7. CASE /\ At(w, "leave", w) /\ Continue(w)
           /\ m_executing' = [m_executing EXCEPT ![w] = FALSE]
           /\ UNCHANGED <<trigger, owed, broken, late, served>>
  <2>1. /\ Moved(w) /\ WorkerChain(todo'[w], w) /\ Place(todo[w]) = "leave"
        /\ todo[w] # << >> /\ todo'[w] # << >>
        /\ <<"leave", Place(todo'[w])>> \in WorkerPairs
    BY <1>1, <1>7, WorkerContinues, Zenon
  <2>2. Place(todo'[w]) = "again"
    BY <1>2, <2>1, Zenon
  <2>3. QED BY <1>7, <2>1, <2>2, Zenon DEF Goes
<1>8. CASE /\ At(w, "again", w)
           /\ GoTo(w, (IF m_loop[w] THEN call(w) ELSE << >>) \o Tail(todo[w]))
           /\ UNCHANGED <<trigger, m_executing, owed, broken, late, served>>
  <2>1. Place(todo[w]) = "again" /\ todo[w] # << >>
    BY <1>8, WorkerAt, Zenon
  <2>2. PICK r : r = Tail(todo[w])
    OBVIOUS
  <2>3. WorkerChain(r, w) /\ r # << >> /\ Place(r) = "while"
    <3>1. /\ WorkerChain(r, w) /\ r # << >> /\ <<"again", Place(r)>> \in WorkerPairs
      BY <1>1, <2>1, <2>2, WorkerTail
    <3>2. QED BY <1>2, <3>1, Zenon
  <2>4. PICK s : s = (IF m_loop[w] THEN call(w) ELSE << >>) \o r
    OBVIOUS
  <2>5. todo' = [todo EXCEPT ![w] = s]
    BY <1>8, <2>2, <2>4, Zenon DEF GoTo
  <2>6. WorkerChain(s, w) /\ Place(s) = IF m_loop[w] THEN "wait call" ELSE "while"
    <3>1. CASE m_loop[w]
      <4>1. /\ "wait call" \in WorkerNames /\ "trigger" \in WorkerNames
            /\ <<"wait call", "trigger">> \in WorkerPairs /\ "trigger" \in {"trigger"}
            /\ <<"trigger", "while">> \in WorkerPairs
        BY DEF WorkerNames, WorkerPairs
      <4>2. Named(call(w), w, "wait call", {"wait call", "trigger"}, WorkerNames, WorkerPairs,
                  {"trigger"})
        BY <4>1, CallNamed, Zenon
      <4>3. <<"trigger", Place(r)>> \in WorkerPairs
        BY <2>3, <4>1
      <4>4. WorkerChain(call(w) \o r, w) /\ Place(call(w) \o r) = "wait call"
        BY <2>3, <4>2, <4>3, WorkerJoined
      <4>5. s = call(w) \o r
        BY <2>4, <3>1, Zenon
      <4>6. QED BY <3>1, <4>4, <4>5, Zenon
    <3>2. CASE ~ m_loop[w]
      <4>1. s = r
        BY <2>3, <2>4, <3>2, NothingBefore, Zenon
      <4>2. QED BY <2>3, <3>2, <4>1, Zenon
    <3>3. QED BY <3>1, <3>2
  <2>7. Moved(w) /\ todo'[w] = s
    BY <2>5, <2>6, WorkerMoved
  <2>8. s # << >>
    <3>1. Place(s) # "none"
      BY <2>6
    <3>2. QED BY <2>6, <3>1, WorkerPlace, Zenon
  <2>9. QED BY <1>8, <2>1, <2>6, <2>7, <2>8, Zenon
<1>9. QED BY <1>3, <1>4, <1>5, <1>6, <1>7, <1>8, Zenon DEF RunStep

LEMMA WorkerWaits ==
    ASSUME TypeOK, NEW w \in Worker, WorkerChain(todo[w], w), NEW v \in Worker, Wait(w, v)
    PROVE  /\ Moved(w) /\ WorkerChain(todo'[w], w) /\ todo[w] # << >> /\ todo'[w] # << >>
           /\ v = w /\ stopped' = stopped
           /\ \/ Goes(w, "wait call", "wait executing") /\ ~ Triggered(w)
              \/ Goes(w, "wait executing", "wait call") /\ m_executing[w]
              \/ Goes(w, "wait executing", "trigger") /\ ~ m_executing[w]
<1>1. /\ "wait call" \notin WorkerLast /\ "wait executing" \notin WorkerLast
      /\ "wait loop" \notin WorkerNames /\ "wait call" \in WorkerNames
      /\ "wait executing" \in WorkerNames
  BY DEF WorkerLast, WorkerNames
<1>2. \A y : (<<"wait executing", y>> \in WorkerPairs \/ <<"wait call", y>> \in WorkerPairs)
                => y = "trigger"
  BY DEF WorkerPairs
<1>3. <<"wait executing", "trigger">> \in WorkerPairs /\ <<"wait call", "trigger">> \in WorkerPairs
  BY DEF WorkerPairs
<1>4. w \notin App
  BY ThreadAssumption
<1>5. stopped' = (stopped \/ FALSE)
  BY <1>4, Zenon DEF Wait
<1>6. stopped' = stopped
  BY <1>5 DEF TypeOK
<1>7. CASE At(w, "wait call", v) /\ ~ Triggered(v)
           /\ GoTo(w, <<<<"wait executing", v>>>> \o Tail(todo[w]))
  <2>1. v = w
    BY <1>7, WorkerAt, Zenon
  <2>2. \A z : <<"wait call", z>> \in WorkerPairs => <<"wait executing", z>> \in WorkerPairs
    BY <1>2, <1>3, Zenon
  <2>3. /\ Moved(w) /\ WorkerChain(todo'[w], w) /\ Place(todo[w]) = "wait call"
        /\ todo[w] # << >> /\ Place(todo'[w]) = "wait executing"
    BY <1>1, <1>7, <2>1, <2>2, WorkerPuts, Zenon
  <2>4. todo'[w] # << >>
    BY <2>3, WorkerPlace
  <2>5. QED BY <1>6, <1>7, <2>1, <2>3, <2>4, Zenon DEF Goes
<1>8. CASE /\ At(w, "wait executing", v)
           /\ IF m_executing[v]
              THEN GoTo(w, join_call(v) \o Tail(todo[w])) ELSE Continue(w)
  <2>1. v = w
    BY <1>8, WorkerAt, Zenon
  <2>2. CASE m_executing[w]
    <3>1. \A z : <<"wait executing", z>> \in WorkerPairs => <<"wait call", z>> \in WorkerPairs
      BY <1>2, <1>3, Zenon
    <3>2. GoTo(w, <<<<"wait call", w>>>> \o Tail(todo[w]))
      BY <1>8, <2>1, <2>2, Zenon DEF join_call
    <3>3. /\ Moved(w) /\ WorkerChain(todo'[w], w) /\ Place(todo[w]) = "wait executing"
          /\ todo[w] # << >> /\ Place(todo'[w]) = "wait call"
      BY <1>1, <1>8, <2>1, <3>1, <3>2, WorkerPuts, Zenon
    <3>4. todo'[w] # << >>
      BY <3>3, WorkerPlace
    <3>5. QED BY <1>6, <2>1, <2>2, <3>3, <3>4, Zenon DEF Goes
  <2>3. CASE ~ m_executing[w]
    <3>1. Continue(w)
      BY <1>8, <2>1, <2>3, Zenon
    <3>2. /\ Moved(w) /\ WorkerChain(todo'[w], w) /\ Place(todo[w]) = "wait executing"
          /\ todo[w] # << >> /\ todo'[w] # << >>
          /\ <<"wait executing", Place(todo'[w])>> \in WorkerPairs
      BY <1>1, <1>8, <2>1, <3>1, WorkerContinues, Zenon
    <3>3. Place(todo'[w]) = "trigger"
      BY <1>2, <3>2, Zenon
    <3>4. QED BY <1>6, <2>1, <2>3, <3>2, <3>3, Zenon DEF Goes
  <2>4. QED BY <2>2, <2>3
<1>9. ~ At(w, "wait loop", v)
  <2>1. SUFFICES ASSUME At(w, "wait loop", v) PROVE FALSE
    OBVIOUS
  <2>2. Place(todo[w]) = "wait loop" /\ todo[w] # << >>
    BY <2>1, WorkerAt, Zenon
  <2>3. Place(todo[w]) \in WorkerNames
    BY <2>2, WorkerPlace
  <2>4. QED BY <1>1, <2>2, <2>3, Zenon
<1>10. QED BY <1>7, <1>8, <1>9, Zenon DEF Wait

LEMMA WorkerTriggers ==
    ASSUME TypeOK, NEW w \in Worker, WorkerChain(todo[w], w), NEW v \in Worker, Trigger(w, v)
    PROVE  /\ Moved(w) /\ WorkerChain(todo'[w], w) /\ todo[w] # << >> /\ todo'[w] # << >>
           /\ v = w /\ Goes(w, "trigger", "while")
<1>1. "trigger" \notin WorkerLast
  BY DEF WorkerLast
<1>2. \A y : <<"trigger", y>> \in WorkerPairs => y = "while"
  BY DEF WorkerPairs
<1>3. At(w, "trigger", v) /\ Continue(w)
  BY Zenon DEF Trigger
<1>4. v = w
  BY <1>3, WorkerAt, Zenon
<1>5. /\ Moved(w) /\ WorkerChain(todo'[w], w) /\ Place(todo[w]) = "trigger"
      /\ todo[w] # << >> /\ todo'[w] # << >>
      /\ <<"trigger", Place(todo'[w])>> \in WorkerPairs
  BY <1>1, <1>3, <1>4, WorkerContinues, Zenon
<1>6. QED BY <1>2, <1>4, <1>5, Zenon DEF Goes

\* A worker does nothing else.
LEMMA WorkerOnly ==
    ASSUME NEW w \in Worker, WorkerChain(todo[w], w), NEW v
    PROVE  /\ ~ Link(w, v) /\ ~ SetFlag(w, v) /\ ~ SetFunction(w, v)
           /\ ~ WaitEnd(w, v) /\ ~ TriggerGroup(w)
<1>1. ASSUME NEW x \in {"delete", "clear", "acquire", "set loop", "clear loop", "stop",
                        "assign", "forget", "wait end", "trigger group"}, NEW u
      PROVE  ~ At(w, x, u)
  <2>1. x \notin WorkerNames
    BY DEF WorkerNames
  <2>2. SUFFICES ASSUME At(w, x, u) PROVE FALSE
    OBVIOUS
  <2>3. Place(todo[w]) = x /\ todo[w] # << >>
    BY <2>2, WorkerAt, Zenon
  <2>4. Place(todo[w]) \in WorkerNames
    BY <2>3, WorkerPlace
  <2>5. QED BY <2>1, <2>3, <2>4, Zenon
<1>2. QED BY <1>1 DEF Link, SetFlag, SetFunction, WaitEnd, TriggerGroup

-----------------------------------------------------------------------------
(* The steps of the application's threads, when the worker w is the only one *)

LEMMA SoloAt ==
    ASSUME NEW w \in Worker, SoloChains(w), NEW c \in App, NEW x, NEW v, At(c, x, v)
    PROVE  v = w /\ Place(todo[c]) = x /\ todo[c] # << >>
<1>1. todo[c] # << >> /\ Head(todo[c]) = <<x, v>>
  BY DEF At
<1>2. SoloChain(todo[c], w)
  BY DEF SoloChains
<1>3. Head(todo[c]) = <<Place(todo[c]), w>>
  BY <1>1, <1>2, SoloTail
<1>4. QED BY <1>1, <1>3

LEMMA SoloMoved ==
    ASSUME TypeOK, NEW w \in Worker, NEW c \in App, NEW r, SoloChain(r, w),
           todo' = [todo EXCEPT ![c] = r]
    PROVE  Moved(c) /\ todo'[c] = r
<1>1. todo \in Todo /\ c \in Thread
  BY DEF TypeOK, Todo, Thread
<1>2. SoloNames \in SUBSET Name
  BY DEF SoloNames, Name
<1>3. r \in Seq(Name \X (Worker \cup {m_execute_start}))
  BY <1>2, NamedTyped, Zenon DEF SoloChain
<1>4. QED BY <1>1, <1>3 DEF Moved, Todo

LEMMA SoloKeeps ==
    ASSUME NEW w \in Worker, SoloChains(w), NEW c \in App, Moved(c), SoloChain(todo'[c], w),
           "set loop" \in Names(todo'[c]) => "trigger" \in Names(todo'[c])
    PROVE  SoloChains(w)'
<1>1. \A u \in Thread : u # c => todo'[u] = todo[u]
  BY DEF Moved
<1>2. \A v \in Worker : v # c /\ v \in Thread /\ todo'[v] = todo[v]
  BY <1>1, ThreadAssumption DEF Thread
<1>3. \A d \in App : d \in Thread /\ (d # c => todo'[d] = todo[d])
  BY <1>1 DEF Thread
<1>4. ASSUME NEW v \in Worker
      PROVE  IF v = w THEN WorkerChain(todo'[w], w) ELSE todo'[v] = << >>
  BY <1>2 DEF SoloChains
<1>5. ASSUME NEW d \in App
      PROVE  /\ SoloChain(todo'[d], w)
             /\ "set loop" \in Names(todo'[d]) => "trigger" \in Names(todo'[d])
  BY <1>3 DEF SoloChains
<1>6. QED BY <1>4, <1>5, Zenon DEF SoloChains

LEMMA WorkerKeeps ==
    ASSUME NEW w \in Worker, SoloChains(w), Moved(w), WorkerChain(todo'[w], w)
    PROVE  /\ SoloChains(w)' /\ \A d \in App : todo'[d] = todo[d]
<1>1. \A u \in Thread : u # w => todo'[u] = todo[u]
  BY DEF Moved
<1>2. \A v \in Worker : v # w => todo'[v] = todo[v]
  BY <1>1 DEF Thread
<1>3. \A d \in App : todo'[d] = todo[d]
  BY <1>1, ThreadAssumption DEF Thread
<1>4. ASSUME NEW v \in Worker
      PROVE  IF v = w THEN WorkerChain(todo'[w], w) ELSE todo'[v] = << >>
  BY <1>2 DEF SoloChains
<1>5. ASSUME NEW d \in App
      PROVE  /\ SoloChain(todo'[d], w)
             /\ "set loop" \in Names(todo'[d]) => "trigger" \in Names(todo'[d])
  BY <1>3 DEF SoloChains
<1>6. QED BY <1>3, <1>4, <1>5, Zenon DEF SoloChains

\* The thread c has executed the statement x, and goes on to the next one.
Executed(c, w, x) ==
    /\ Moved(c) /\ SoloChains(w)'
    /\ Place(todo[c]) = x /\ todo[c] # << >>
    /\ <<x, Place(todo'[c])>> \in SoloMoves
    /\ todo'[c] = << >> <=> Place(todo'[c]) = "none"
    /\ x \in Names(todo[c])
    /\ \A y : y \in Names(todo'[c]) => y \in Names(todo[c])
    /\ \A y : y # x /\ y \in Names(todo[c]) => y \in Names(todo'[c])

LEMMA SoloContinues ==
    ASSUME TypeOK, NEW w \in Worker, SoloChains(w), NEW c \in App, NEW x, NEW v,
           At(c, x, v), Continue(c)
    PROVE  v = w /\ Executed(c, w, x)
<1>1. v = w /\ Place(todo[c]) = x /\ todo[c] # << >>
  BY SoloAt
<1>2. PICK s, r : s = todo[c] /\ r = Tail(s)
  OBVIOUS
<1>3. SoloChain(s, w) /\ s # << >> /\ Place(s) = x
  BY <1>1, <1>2 DEF SoloChains
<1>4. SoloChain(r, w) /\ Names(s) = {x} \cup Names(r) /\ <<x, Place(r)>> \in SoloMoves
  <2>1. /\ SoloChain(Tail(s), w) /\ Names(s) = {Place(s)} \cup Names(Tail(s))
        /\ <<Place(s), Place(Tail(s))>> \in SoloMoves
    BY <1>3, SoloTail
  <2>2. QED BY <1>2, <1>3, <2>1, Zenon
<1>5. r = << >> <=> Place(r) = "none"
  BY <1>4, SoloPlace
<1>6. todo' = [todo EXCEPT ![c] = r]
  BY <1>2, Zenon DEF Continue, GoTo
<1>7. Moved(c) /\ todo'[c] = r
  BY <1>4, <1>6, SoloMoved
<1>8. "set loop" \in Names(r) => "trigger" \in Names(r)
  <2>1. SUFFICES ASSUME "set loop" \in Names(r), "trigger" \notin Names(r) PROVE FALSE
    OBVIOUS
  <2>2. "trigger" \in Names(s)
    BY <1>2, <1>4, <2>1 DEF SoloChains
  <2>3. x = "trigger"
    BY <1>4, <2>1, <2>2
  <2>4. Place(r) = "none"
    BY <1>4, <2>3 DEF SoloMoves, SoloPairs, SoloLast
  <2>5. Names(r) = {}
    BY <1>4, <1>5, <2>4, SoloPlace, Zenon
  <2>6. QED BY <2>1, <2>5
<1>9. SoloChains(w)'
  BY <1>4, <1>7, <1>8, SoloKeeps, Zenon
<1>10. QED BY <1>1, <1>2, <1>4, <1>5, <1>7, <1>9 DEF Executed

LEMMA BoundIs ==
    ASSUME NEW d
    PROVE  BoundToTrigger(d) <=> "trigger" \in Names(todo[d])
<1>1. PICK s : s = todo[d]
  OBVIOUS
<1>2. (\E i \in DOMAIN s : s[i][1] = "trigger") <=> "trigger" \in Names(s)
  BY DEF Names, ToSet
<1>3. QED BY <1>1, <1>2, Zenon DEF BoundToTrigger

\* The waits.  They change nothing of what else the thread is about to do.
Waited(c, w) ==
    /\ Moved(c) /\ SoloChains(w)' /\ todo[c] # << >>
    /\ todo'[c] = << >> <=> Place(todo'[c]) = "none"
    /\ \A y \in {"trigger", "set loop"} : y \in Names(todo'[c]) <=> y \in Names(todo[c])
    /\ \/ Goes(c, "wait call", "wait executing") /\ ~ Triggered(w)
       \/ Goes(c, "wait executing", "wait call") /\ m_executing[w]
       \/ /\ Place(todo[c]) = "wait executing" /\ ~ m_executing[w]
          /\ Place(todo'[c]) \in {"none", "trigger", "set loop"}
       \/ Goes(c, "wait loop", "wait call") /\ ~ m_loop[w]

LEMMA SoloWaitMoves ==
    ASSUME TypeOK, NEW w \in Worker, SoloChains(w), NEW c \in App, NEW v \in Worker, Wait(c, v)
    PROVE  v = w /\ Waited(c, w)
<1>1. ASSUME NEW x \in {"wait call", "wait executing"}, NEW y \in {"wait call", "wait executing"},
             At(c, x, v), GoTo(c, <<<<y, v>>>> \o Tail(todo[c]))
      PROVE  /\ v = w /\ Moved(c) /\ SoloChains(w)' /\ todo[c] # << >>
             /\ todo'[c] = << >> <=> Place(todo'[c]) = "none"
             /\ \A z \in {"trigger", "set loop"} :
                   z \in Names(todo'[c]) <=> z \in Names(todo[c])
             /\ Goes(c, x, y)
  <2>1. v = w /\ Place(todo[c]) = x /\ todo[c] # << >>
    BY <1>1, SoloAt, Zenon
  <2>2. PICK s, r : s = todo[c] /\ r = <<<<y, w>>>> \o Tail(s)
    OBVIOUS
  <2>3. SoloChain(s, w) /\ s # << >> /\ Place(s) = x
    BY <2>1, <2>2 DEF SoloChains
  <2>4. SoloChain(r, w) /\ Place(r) = y /\ Names(r) = {y} \cup Names(Tail(s)) /\ r # << >>
    <3>1. Place(s) \in {"wait call", "wait executing"}
      BY <2>3
    <3>2. QED BY <2>2, <2>3, <3>1, SoloWaits, Zenon
  <2>5. Names(s) = {x} \cup Names(Tail(s))
    <3>1. Names(s) = {Place(s)} \cup Names(Tail(s))
      BY <2>3, SoloTail
    <3>2. QED BY <2>3, <3>1, Zenon
  <2>6. \A z \in {"trigger", "set loop"} : z \in Names(r) <=> z \in Names(s)
    <3>1. \A z \in {"trigger", "set loop"} : z # x /\ z # y
      OBVIOUS
    <3>2. QED BY <2>4, <2>5, <3>1
  <2>7. todo' = [todo EXCEPT ![c] = r]
    BY <1>1, <2>1, <2>2, Zenon DEF GoTo
  <2>8. Moved(c) /\ todo'[c] = r
    BY <2>4, <2>7, SoloMoved
  <2>9. "set loop" \in Names(r) => "trigger" \in Names(r)
    BY <2>2, <2>6 DEF SoloChains
  <2>10. SoloChains(w)'
    BY <2>4, <2>8, <2>9, SoloKeeps, Zenon
  <2>11. y # "none"
    OBVIOUS
  <2>12. QED BY <2>1, <2>2, <2>4, <2>6, <2>8, <2>10, <2>11, Zenon DEF Goes
<1>2. CASE At(c, "wait call", v) /\ ~ Triggered(v)
           /\ GoTo(c, <<<<"wait executing", v>>>> \o Tail(todo[c]))
  <2>1. "wait call" \in {"wait call", "wait executing"}
        /\ "wait executing" \in {"wait call", "wait executing"}
    OBVIOUS
  <2>2. QED BY <1>1, <1>2, <2>1, Zenon DEF Waited
<1>3. CASE At(c, "wait executing", v) /\ m_executing[v] /\ GoTo(c, join_call(v) \o Tail(todo[c]))
  <2>1. "wait call" \in {"wait call", "wait executing"}
        /\ "wait executing" \in {"wait call", "wait executing"}
    OBVIOUS
  <2>2. QED BY <1>1, <1>3, <2>1, Zenon DEF join_call, Waited
<1>4. CASE At(c, "wait executing", v) /\ ~ m_executing[v] /\ Continue(c)
  <2>1. v = w /\ Executed(c, w, "wait executing")
    BY <1>4, SoloContinues, Zenon
  <2>2. PICK p : p = Place(todo'[c])
    OBVIOUS
  <2>3. <<"wait executing", p>> \in SoloMoves
    BY <2>1, <2>2, Zenon DEF Executed
  <2>4. p \in {"none", "trigger", "set loop"}
    BY <2>3 DEF SoloMoves, SoloPairs, SoloLast
  <2>5. \A y \in {"trigger", "set loop"} : y # "wait executing"
    OBVIOUS
  <2>6. \A y \in {"trigger", "set loop"} : y \in Names(todo'[c]) <=> y \in Names(todo[c])
    BY <2>1, <2>5, Zenon DEF Executed
  <2>7. QED BY <1>4, <2>1, <2>2, <2>4, <2>6, Zenon DEF Executed, Goes, Waited
<1>5. CASE At(c, "wait loop", v) /\ ~ m_loop[v] /\ Continue(c)
  <2>1. v = w /\ Executed(c, w, "wait loop")
    BY <1>5, SoloContinues, Zenon
  <2>2. PICK p : p = Place(todo'[c])
    OBVIOUS
  <2>3. <<"wait loop", p>> \in SoloMoves
    BY <2>1, <2>2, Zenon DEF Executed
  <2>4. p = "wait call"
    BY <2>3 DEF SoloMoves, SoloPairs, SoloLast
  <2>5. \A y \in {"trigger", "set loop"} : y # "wait loop"
    OBVIOUS
  <2>6. \A y \in {"trigger", "set loop"} : y \in Names(todo'[c]) <=> y \in Names(todo[c])
    BY <2>1, <2>5, Zenon DEF Executed
  <2>7. QED BY <1>5, <2>1, <2>2, <2>4, <2>6, Zenon DEF Executed, Goes, Waited
<1>6. QED BY <1>2, <1>3, <1>4, <1>5, Zenon DEF Wait

\* An operation begins.
Begun(c, w, op) ==
    /\ Moved(c) /\ SoloChains(w)' /\ todo[c] = << >> /\ todo'[c] # << >>
    /\ Place(todo'[c]) \in {"wait call", "wait loop", "clear loop", "assign", "stop"}
    /\ Place(todo'[c]) = "assign" <=> op \in Assigning
    /\ op = "join_call" => Place(todo'[c]) = "wait call"
    /\ "trigger" \in Names(todo'[c]) <=> op \in Triggering
    /\ "set loop" \in Names(todo'[c]) <=> op \in Looping

LEMMA SoloBegins ==
    ASSUME TypeOK, NEW w \in Worker, SoloChains(w), NEW c \in App, NEW v \in Worker,
           NEW op \in Operation, Begin(c, v, op)
    PROVE  v = w /\ Begun(c, w, op)
<1>1. /\ todo[v] # << >> /\ todo[c] = << >>
      /\ todo' = [todo EXCEPT ![c] = Statements(v)[op]]
  BY Zenon DEF Begin, Idle
<1>2. v = w
  BY <1>1 DEF SoloChains
<1>3. PICK first \in {"wait call", "wait loop", "clear loop", "assign", "stop"},
           all \in SUBSET SoloNames :
         /\ Opens(Statements(w)[op], w, first, all)
         /\ first = "assign" <=> op \in Assigning
         /\ op = "join_call" => first = "wait call"
         /\ "trigger" \in all <=> op \in Triggering
         /\ "set loop" \in all <=> op \in Looping
  BY StatementsOpen
<1>4. PICK r : r = Statements(w)[op]
  OBVIOUS
<1>5. SoloChain(r, w) /\ r # << >> /\ Place(r) = first /\ Names(r) = all
  BY <1>3, <1>4, NamedIs, Zenon DEF Opens, SoloChain
<1>6. todo' = [todo EXCEPT ![c] = r]
  BY <1>1, <1>2, <1>4, Zenon
<1>7. Moved(c) /\ todo'[c] = r
  BY <1>5, <1>6, SoloMoved
<1>8. Looping \subseteq Triggering
  BY DEF Looping, Triggering
<1>9. "set loop" \in Names(r) => "trigger" \in Names(r)
  BY <1>3, <1>5, <1>8
<1>10. SoloChains(w)'
  BY <1>5, <1>7, <1>9, SoloKeeps, Zenon
<1>11. QED BY <1>1, <1>2, <1>3, <1>5, <1>7, <1>10, Zenon DEF Begun

-----------------------------------------------------------------------------
(* Types *)

LEMMA TypeParts ==
    TypeOK <=>
        /\ m_call \in [Worker -> Worker \cup {m_execute_start, Freed, Null}]
        /\ trigger \in [Worker \cup {m_execute_start} -> BOOLEAN]
        /\ m_persist \in [Worker -> BOOLEAN] /\ m_loop \in [Worker -> BOOLEAN]
        /\ m_executing \in [Worker -> BOOLEAN] /\ m_function \in [Worker -> BOOLEAN]
        /\ todo \in Todo
        /\ group \subseteq Worker /\ served \subseteq Worker /\ joined \subseteq App
        /\ looped \in BOOLEAN /\ overlapped \in BOOLEAN /\ broken \in BOOLEAN
        /\ crossed \in BOOLEAN /\ stopped \in BOOLEAN
        /\ begun \in Nat /\ owed \in Nat /\ late \in Nat
BY DEF TypeOK, Todo

LEMMA BeginTyped ==
    ASSUME TypeOK, todo' \in Todo, NEW c \in App, NEW w \in Worker, NEW op, Begin(c, w, op)
    PROVE  TypeOK'
<1>1. /\ UNCHANGED <<m_call, trigger, m_persist, m_loop, m_executing, m_function, group, owed,
                     broken, crossed, served>>
      /\ begun' = begun + 1
      /\ joined' = IF op = "join_call" THEN joined \cup {c} ELSE {}
      /\ looped' = (looped \/ op \in Looping)
      /\ overlapped' = (overlapped \/ \E d \in App \ {c} :
                           ~ Idle(d) /\ (op \in Triggering \/ BoundToTrigger(d)))
      /\ stopped' = (stopped /\ op \notin Triggering)
      /\ late' = IF op \in Triggering THEN 0 ELSE late
  BY Zenon DEF Begin, flags
<1>2. looped' \in BOOLEAN /\ overlapped' \in BOOLEAN /\ stopped' \in BOOLEAN
  BY <1>1
<1>3. begun' \in Nat /\ joined' \subseteq App /\ late' \in Nat
  BY <1>1, TypeParts
<1>4. QED BY <1>1, <1>2, <1>3, TypeParts DEF Todo, TypeOK

LEMMA BeginGroupTyped ==
    ASSUME TypeOK, todo' \in Todo, NEW c \in App, NEW op, BeginGroup(c, op)
    PROVE  TypeOK'
<1>1. /\ UNCHANGED <<m_call, trigger, m_persist, m_loop, m_executing, m_function, group, looped,
                     overlapped, owed, broken, crossed, served>>
      /\ begun' = begun + 1
      /\ joined' = IF op = "join" THEN joined \cup {c} ELSE joined \ {c}
      /\ stopped' = (stopped /\ op # "execute")
      /\ late' = IF op = "execute" THEN 0 ELSE late
  BY Zenon DEF BeginGroup, flags
<1>2. stopped' \in BOOLEAN
  BY <1>1
<1>3. begun' \in Nat /\ joined' \subseteq App /\ late' \in Nat
  BY <1>1, TypeParts
<1>4. QED BY <1>1, <1>2, <1>3, TypeParts DEF Todo, TypeOK

LEMMA WaitTyped ==
    ASSUME TypeOK, todo' \in Todo, NEW t \in Thread, NEW w \in Worker, Wait(t, w)
    PROVE  TypeOK'
<1>1. /\ UNCHANGED <<m_call, trigger, m_persist, m_loop, m_executing, m_function, group, begun,
                     joined, looped, overlapped, owed, broken, crossed, late, served>>
      /\ stopped' = (stopped \/ /\ t \in App /\ todo'[t] = << >> /\ ~ m_loop[w]
                                /\ ~ \E d \in App : BoundToTrigger(d))
  BY Zenon DEF Wait, flags
<1>2. stopped' \in BOOLEAN
  BY <1>1
<1>3. QED BY <1>1, <1>2, TypeParts DEF Todo, TypeOK

LEMMA TriggerTyped ==
    ASSUME TypeOK, todo' \in Todo, NEW t \in Thread, NEW w \in Worker, Trigger(t, w)
    PROVE  TypeOK'
<1>1. /\ UNCHANGED <<m_call, m_persist, m_loop, m_executing, m_function, group, begun,
                     joined, looped, overlapped, broken, stopped, late, served>>
      /\ trigger' = [trigger EXCEPT ![m_call[w]] = TRUE]
      /\ owed' = IF t = w THEN owed ELSE owed + 1
      /\ crossed' = (crossed \/ (t # w /\ ~ WorkerIdle(w)))
  BY Zenon DEF Trigger
<1>2. crossed' \in BOOLEAN
  BY <1>1
<1>5. owed' \in Nat
  BY <1>1, TypeParts
<1>6. trigger \in [Worker \cup {m_execute_start} -> BOOLEAN]
  BY TypeParts
<1>3. owed' \in Nat /\ trigger' \in [Worker \cup {m_execute_start} -> BOOLEAN]
  BY <1>1, <1>5, <1>6
<1>4. QED BY <1>1, <1>2, <1>3, TypeParts DEF Todo, TypeOK

LEMMA TriggerGroupTyped ==
    ASSUME TypeOK, todo' \in Todo, NEW t \in Thread, TriggerGroup(t)
    PROVE  TypeOK'
<1>1. /\ UNCHANGED <<m_call, m_persist, m_loop, m_executing, m_function, group, begun,
                     joined, looped, overlapped, owed, broken, crossed, stopped, late>>
      /\ trigger' = [trigger EXCEPT ![m_execute_start] = TRUE] /\ served' = {}
  BY Zenon DEF TriggerGroup
<1>2. trigger' \in [Worker \cup {m_execute_start} -> BOOLEAN] /\ served' \subseteq Worker
  BY <1>1, TypeParts
<1>3. QED BY <1>1, <1>2, TypeParts DEF Todo, TypeOK

\* The three steps of link(): the bool may be in use when it is deleted.
LEMMA LinkIs ==
    ASSUME TypeOK, NEW t, NEW w, Link(t, w)
    PROVE  /\ Continue(t)
           /\ UNCHANGED <<trigger, m_persist, m_loop, m_executing, m_function, group, begun,
                          joined, looped, overlapped, owed, crossed, stopped, late, served>>
           /\ \/ /\ At(t, "delete", w) /\ m_call' = [m_call EXCEPT ![w] = Freed]
                 /\ \/ broken' = broken
                    \/ broken' \in BOOLEAN /\ \E u \in Thread : Reads(u, w)
              \/ /\ At(t, "clear", w) /\ m_call' = [m_call EXCEPT ![w] = Null]
                 /\ broken' = broken
              \/ /\ At(t, "acquire", w) /\ m_call' = [m_call EXCEPT ![w] = m_execute_start]
                 /\ broken' = broken
<1>1. /\ Continue(t)
      /\ UNCHANGED <<trigger, m_persist, m_loop, m_executing, m_function, group, begun,
                     joined, looped, overlapped, owed, crossed, stopped, late, served>>
  BY Zenon DEF Link
<1>2. CASE /\ At(t, "delete", w) /\ m_call' = [m_call EXCEPT ![w] = Freed]
           /\ \E held \in BOOLEAN :
                 broken' = (broken \/ (held /\ \E u \in Thread : Reads(u, w)))
  <2>1. PICK held \in BOOLEAN : broken' = (broken \/ (held /\ \E u \in Thread : Reads(u, w)))
    BY <1>2
  <2>2. broken' \in BOOLEAN
    BY <2>1
  <2>3. broken' = broken \/ \E u \in Thread : Reads(u, w)
    BY <2>1 DEF TypeOK
  <2>4. QED BY <1>1, <1>2, <2>2, <2>3
<1>3. QED BY <1>1, <1>2, Zenon DEF Link

LEMMA FlagTyped ==
    ASSUME TypeOK, todo' \in Todo, NEW t \in Thread, NEW w \in Worker,
           Link(t, w) \/ Misread(t, w)
           \/ SetFlag(t, w) \/ SetFunction(t, w) \/ WaitEnd(t, w)
    PROVE  TypeOK'
<1>1. CASE Link(t, w)
  <2>1. /\ UNCHANGED <<trigger, m_persist, m_loop, m_executing, m_function, group, begun, joined,
                       looped, overlapped, owed, crossed, stopped, late, served>>
        /\ \E b \in {Freed, Null, m_execute_start} : m_call' = [m_call EXCEPT ![w] = b]
    BY <1>1, LinkIs
  <2>2. m_call' \in [Worker -> Worker \cup {m_execute_start, Freed, Null}]
    BY <2>1, TypeParts
  <2>3. broken' \in BOOLEAN
    BY <1>1, LinkIs, TypeParts
  <2>4. QED BY <2>1, <2>2, <2>3, TypeParts DEF Todo, TypeOK
<1>6. CASE Misread(t, w)
  <2>1. /\ UNCHANGED <<m_call, trigger, m_persist, m_loop, m_executing, m_function, group, begun,
                       joined, looped, overlapped, owed, crossed, stopped, late, served>>
        /\ broken' = TRUE
    BY <1>6, Zenon DEF Misread, flags
  <2>2. QED BY <2>1, TypeParts DEF Todo, TypeOK
<1>2. CASE SetFlag(t, w)
  <2>1. /\ UNCHANGED <<m_call, trigger, m_executing, m_function, group, begun, joined,
                       looped, overlapped, owed, broken, crossed, stopped, late, served>>
        /\ \/ m_loop' = [m_loop EXCEPT ![w] = TRUE] /\ m_persist' = m_persist
           \/ m_loop' = [m_loop EXCEPT ![w] = FALSE] /\ m_persist' = m_persist
           \/ m_persist' = [m_persist EXCEPT ![w] = FALSE] /\ m_loop' = m_loop
    BY <1>2, Zenon DEF SetFlag, history
  <2>2. m_loop' \in [Worker -> BOOLEAN] /\ m_persist' \in [Worker -> BOOLEAN]
    BY <2>1, TypeParts
  <2>3. QED BY <2>1, <2>2, TypeParts DEF Todo, TypeOK
<1>3. CASE SetFunction(t, w)
  <2>1. /\ UNCHANGED <<m_call, trigger, m_persist, m_loop, m_executing, group, begun, joined,
                       looped, overlapped, owed, crossed, stopped, late, served>>
        /\ m_function' = [m_function EXCEPT ![w] = At(t, "assign", w)]
        /\ broken' = (broken \/ At(w, "running", w))
    BY <1>3, Zenon DEF SetFunction, flags
  <2>2. At(t, "assign", w) \in BOOLEAN
    BY DEF At
  <2>3. broken' \in BOOLEAN
    BY <2>1
  <2>4. m_function' \in [Worker -> BOOLEAN]
    BY <2>1, <2>2, TypeParts
  <2>5. QED BY <2>1, <2>3, <2>4, TypeParts DEF Todo, TypeOK
<1>4. CASE WaitEnd(t, w)
  <2>1. UNCHANGED <<m_call, trigger, m_persist, m_loop, m_executing, m_function, group, begun,
                    joined, looped, overlapped, owed, broken, crossed, stopped, late, served>>
    BY <1>4, Zenon DEF WaitEnd, history, flags
  <2>2. QED BY <2>1, TypeParts DEF Todo, TypeOK
<1>5. QED BY <1>1, <1>2, <1>3, <1>4, <1>6

LEMMA PollTyped ==
    ASSUME TypeOK, todo' \in Todo, NEW w \in Worker, Poll(w)
    PROVE  TypeOK'
<1>1. UNCHANGED <<m_call, trigger, m_persist, m_loop, m_executing, m_function, group, begun,
                  joined, looped, overlapped, owed, broken, crossed, stopped, late, served>>
  BY Zenon DEF Poll, history, flags
<1>2. QED BY <1>1, TypeParts DEF Todo, TypeOK

LEMMA RunTyped ==
    ASSUME TypeOK, todo' \in Todo, NEW w \in Worker, RunStep(w)
    PROVE  TypeOK'
<1>1. UNCHANGED <<m_call, m_persist, m_loop, m_function, group, begun, joined, looped,
                  overlapped, crossed, stopped>>
  BY Zenon DEF RunStep
<1>2. /\ m_executing' = m_executing \/ m_executing' = [m_executing EXCEPT ![w] = TRUE]
            \/ m_executing' = [m_executing EXCEPT ![w] = FALSE]
      /\ trigger' = trigger \/ trigger' = [trigger EXCEPT ![m_call[w]] = FALSE]
      /\ owed' = owed \/ owed' = IF owed > 0 THEN owed - 1 ELSE 0
      /\ late' = late \/ late' = IF stopped THEN late + 1 ELSE late
      /\ served' = served \/ served' = served \cup {w}
      /\ broken' = broken \/ broken' = (broken \/ ~ m_function[w])
  BY Zenon DEF RunStep
<1>3. m_executing' \in [Worker -> BOOLEAN] /\ trigger' \in [Worker \cup {m_execute_start} -> BOOLEAN]
  <2>1. m_executing \in [Worker -> BOOLEAN] /\ trigger \in [Worker \cup {m_execute_start} -> BOOLEAN]
    BY TypeParts
  <2>2. m_executing' \in [Worker -> BOOLEAN]
    BY <1>2, <2>1
  <2>3. trigger' \in [Worker \cup {m_execute_start} -> BOOLEAN]
    BY <1>2, <2>1
  <2>4. QED BY <2>2, <2>3
<1>4. owed' \in Nat /\ late' \in Nat /\ served' \subseteq Worker
  BY <1>2, TypeParts
<1>5. broken' \in BOOLEAN
  BY <1>2, TypeParts
<1>6. QED BY <1>1, <1>3, <1>4, <1>5, TypeParts DEF Todo, TypeOK

\* Whatever a thread does.
LEMMA NextTyped ==
    ASSUME TypeOK, todo' \in Todo, Next
    PROVE  TypeOK'
<1>1. ASSUME NEW t \in Thread, Step(t) PROVE TypeOK'
  <2>1. ASSUME NEW w \in Worker,
               \/ Wait(t, w) \/ Trigger(t, w) \/ Link(t, w) \/ Misread(t, w)
               \/ SetFlag(t, w) \/ SetFunction(t, w) \/ WaitEnd(t, w)
               \/ t = w /\ (Poll(w) \/ RunStep(w))
        PROVE  TypeOK'
    BY <2>1, WaitTyped, TriggerTyped, FlagTyped, PollTyped, RunTyped, Zenon
  <2>2. QED BY <1>1, <2>1, TriggerGroupTyped, Zenon DEF Step
<1>2. QED BY <1>1, BeginTyped, BeginGroupTyped, Zenon DEF Next

-----------------------------------------------------------------------------
(* The invariant of a thread of its own *)

LEMMA AppFrame ==
    ASSUME NEW w \in Worker, NEW c \in App, Moved(c)
    PROVE  todo'[w] = todo[w] /\ \A d \in App : d # c => todo'[d] = todo[d]
<1>1. \A u \in Thread : u # c => todo'[u] = todo[u]
  BY DEF Moved
<1>2. w # c /\ w \in Thread /\ App \subseteq Thread
  BY ThreadAssumption DEF Thread
<1>3. QED BY <1>1, <1>2

LEMMA SoloBegin ==
    ASSUME TypeOK, NEW w \in Worker, Solo(w), NEW c \in App, NEW v \in Worker,
           NEW op \in Operation, Begin(c, v, op)
    PROVE  Solo(w)' /\ todo' \in Todo
<1>1. v = w /\ Begun(c, w, op)
  BY SoloBegins DEF Solo
<1>2. /\ Moved(c) /\ SoloChains(w)' /\ todo[c] = << >> /\ todo'[c] # << >>
      /\ Place(todo'[c]) \in {"wait call", "wait loop", "clear loop", "assign", "stop"}
      /\ Place(todo'[c]) = "assign" <=> op \in Assigning
      /\ "trigger" \in Names(todo'[c]) <=> op \in Triggering
      /\ "set loop" \in Names(todo'[c]) <=> op \in Looping
  BY <1>1, Zenon DEF Begun
<1>3. todo'[w] = todo[w] /\ \A d \in App : d # c => todo'[d] = todo[d]
  BY <1>2, AppFrame
<1>4. /\ UNCHANGED <<m_call, trigger, m_persist, m_loop, m_executing, m_function, owed, broken,
                     crossed>>
      /\ \A d \in App \ {c} : op = "destroy" => todo[d] = << >>
      /\ op \in Triggering \ Assigning => m_function[w]
      /\ op \in Assigning => c \in joined /\ \A d \in App \ {c} : todo[d] = << >>
      /\ joined' = IF op = "join_call" THEN joined \cup {c} ELSE {}
      /\ looped' = (looped \/ op \in Looping)
      /\ overlapped' = (overlapped \/ \E d \in App \ {c} :
                           todo[d] # << >> /\ (op \in Triggering \/ BoundToTrigger(d)))
      /\ stopped' = (stopped /\ op \notin Triggering)
      /\ late' = IF op \in Triggering THEN 0 ELSE late
  BY <1>1 DEF Begin, flags, Idle, OthersIdle
<1>5. Marked(w)'
  BY <1>3, <1>4 DEF Solo, Marked
<1>6. Stopped(w)'
  <2>1. ToCome(w)' = ToCome(w)
    BY <1>3, <1>4 DEF ToCome, Runs, RunsAgain
  <2>2. CASE op \in Triggering
    BY <1>4, <2>2 DEF Stopped
  <2>3. CASE op \notin Triggering
    <3>1. stopped' = stopped /\ late' = late /\ m_loop' = m_loop
      BY <1>4, <2>3 DEF TypeOK
    <3>2. ASSUME NEW d \in App, "trigger" \notin Names(todo[d])
          PROVE  "trigger" \notin Names(todo'[d])
      BY <1>2, <1>3, <2>3, <3>2
    <3>3. QED BY <2>1, <3>1, <3>2 DEF Stopped, Solo
  <2>4. QED BY <2>2, <2>3
<1>7. Ended(w)'
  BY <1>2, <1>3 DEF Ended, Solo
<1>8. Untriggered(w)'
  BY <1>3, <1>4 DEF Untriggered, Solo
<1>9. ASSUME ~ looped', ~ overlapped' PROVE Orderly(w)'
  <2>1. ~ looped /\ op \notin Looping /\ ~ overlapped
        /\ \A d \in App : d # c => todo[d] = << >> \/ (op \notin Triggering /\ ~ BoundToTrigger(d))
    BY <1>4, <1>9
  <2>2. \A d \in App : d # c => todo[d] = << >> \/ "trigger" \notin Names(todo[d])
    BY <2>1, BoundIs
  <2>3. Orderly(w)
    BY <2>1 DEF Solo
  <2>4. Rests(w)' <=> Rests(w)
    BY <1>3, <1>4 DEF Rests
  <2>5. \A d \in App : d # c => "trigger" \notin Names(todo'[d])
    <3>1. TAKE d \in App
    <3>2. HAVE d # c
    <3>3. SoloChain(todo[d], w)
      BY DEF Solo, SoloChains
    <3>4. todo[d] = << >> => Names(todo[d]) = {}
      BY <3>3, SoloPlace
    <3>5. QED BY <1>3, <2>2, <3>2, <3>4
  <2>6. NoLoop(w)'
    BY <1>2, <1>3, <1>4, <2>1, <2>3 DEF NoLoop, Orderly
  <2>7. OneCaller(w)'
    <3>1. SUFFICES ASSUME NEW a \in App, NEW d \in App, "trigger" \in Names(todo'[a]), d # a
                   PROVE  todo'[d] = << >>
      BY DEF OneCaller
    <3>2. a = c
      BY <2>5, <3>1
    <3>3. op \in Triggering
      BY <1>2, <3>1, <3>2
    <3>4. QED BY <1>3, <2>1, <3>1, <3>2, <3>3
  <2>8. ~ broken'
    BY <1>4, <2>3 DEF Orderly
  <2>9. \A d \in App : Place(todo'[d]) \in {"wait executing", "trigger"} => ~ trigger'[w]
    BY <1>2, <1>3, <1>4, <2>3 DEF Orderly
  <2>10. \A d \in App : Place(todo'[d]) = "assign" => Rests(w)'
    BY <1>2, <1>3, <1>4, <2>3, <2>4 DEF Orderly
  <2>11. \A b \in joined' : /\ \A d \in App : "trigger" \notin Names(todo'[d])
                            /\ Place(todo'[b]) \in {"none", "wait call", "wait executing"}
                            /\ todo'[b] = << >> => Rests(w)'
    <3>1. SUFFICES ASSUME NEW b \in joined'
                   PROVE  /\ \A d \in App : "trigger" \notin Names(todo'[d])
                          /\ Place(todo'[b]) \in {"none", "wait call", "wait executing"}
                          /\ todo'[b] = << >> => Rests(w)'
      OBVIOUS
    <3>2. op = "join_call" /\ b \in joined \cup {c} /\ op \notin Triggering
      BY <1>4, <3>1 DEF Triggering
    <3>3. Place(todo'[c]) = "wait call"
      BY <1>1, <3>2, Zenon DEF Begun
    <3>4. CASE b = c
      BY <1>2, <2>5, <3>2, <3>3, <3>4
    <3>5. CASE b # c
      <4>1. b \in joined /\ b \in App
        BY <3>2, <3>5 DEF TypeOK
      <4>2. todo'[b] = todo[b]
        BY <1>3, <3>5, <4>1
      <4>3. QED BY <1>2, <2>3, <2>4, <2>5, <3>2, <4>1, <4>2 DEF Orderly
    <3>6. QED BY <3>4, <3>5
  <2>12. owed' = IF trigger'[w] THEN 1 ELSE 0
    BY <1>4, <2>3 DEF Orderly
  <2>13. todo'[w] # << >> /\ ~ Rests(w)' => m_function'[w]
    BY <1>3, <1>4, <2>3, <2>4 DEF Orderly
  <2>14. \A d \in App : "trigger" \in Names(todo'[d]) =>
                           m_function'[w] \/ Place(todo'[d]) = "assign"
    BY <1>2, <1>4, <2>5
  <2>15. QED
    BY <2>6, <2>7, <2>8, <2>9, <2>10, <2>11, <2>12, <2>13, <2>14, Zenon DEF Orderly
<1>10. QED BY <1>2, <1>5, <1>6, <1>7, <1>8, <1>9, Zenon DEF Solo, Moved

\* The names of what any thread of the application has to do.
LEMMA NamesIn ==
    ASSUME NEW w \in Worker, SoloChains(w), NEW d \in App
    PROVE  /\ todo[d] = << >> <=> Place(todo[d]) = "none"
           /\ todo[d] = << >> => Names(todo[d]) = {}
           /\ todo[d] # << >> => Place(todo[d]) \in Names(todo[d])
BY SoloPlace DEF SoloChains

\* A thread that has seen neither the trigger nor a run has seen the worker rest.
LEMMA SeenToRest ==
    ASSUME NEW w, Marked(w), ~ trigger[w], ~ m_executing[w]
    PROVE  Rests(w)
BY DEF Marked, Rests, Early

LEMMA SoloWait ==
    ASSUME TypeOK, NEW w \in Worker, Solo(w), NEW c \in App, NEW v \in Worker, Wait(c, v)
    PROVE  Solo(w)' /\ todo' \in Todo
<1>1. v = w /\ Waited(c, w)
  BY SoloWaitMoves DEF Solo
<1>2. /\ Moved(c) /\ SoloChains(w)' /\ todo[c] # << >>
      /\ todo'[c] = << >> <=> Place(todo'[c]) = "none"
      /\ "trigger" \in Names(todo'[c]) <=> "trigger" \in Names(todo[c])
      /\ "set loop" \in Names(todo'[c]) <=> "set loop" \in Names(todo[c])
      /\ \/ Goes(c, "wait call", "wait executing") /\ ~ Triggered(w)
         \/ Goes(c, "wait executing", "wait call") /\ m_executing[w]
         \/ /\ Place(todo[c]) = "wait executing" /\ ~ m_executing[w]
            /\ Place(todo'[c]) \in {"none", "trigger", "set loop"}
         \/ Goes(c, "wait loop", "wait call") /\ ~ m_loop[w]
  BY <1>1 DEF Waited
<1>3. todo'[w] = todo[w] /\ \A d \in App : d # c => todo'[d] = todo[d]
  BY <1>2, AppFrame
<1>4. /\ UNCHANGED <<m_call, trigger, m_persist, m_loop, m_executing, m_function, joined, looped,
                     overlapped, owed, broken, crossed, late>>
      /\ stopped' = (stopped \/ /\ c \in App /\ todo'[c] = << >> /\ ~ m_loop[w]
                                /\ ~ \E d \in App : BoundToTrigger(d))
  BY <1>1, Zenon DEF Wait, flags
<1>5. /\ \A d \in App : "trigger" \in Names(todo'[d]) <=> "trigger" \in Names(todo[d])
      /\ \A d \in App : "set loop" \in Names(todo'[d]) <=> "set loop" \in Names(todo[d])
  BY <1>2, <1>3
<1>6. Marked(w) /\ Marked(w)' /\ (Triggered(w) <=> trigger[w])
  BY <1>3, <1>4 DEF Solo, Marked, Triggered
<1>7. Stopped(w)'
  <2>1. ToCome(w)' = ToCome(w)
    BY <1>3, <1>4 DEF ToCome, Runs, RunsAgain
  <2>2. CASE stopped
    BY <1>4, <1>5, <2>1, <2>2 DEF Stopped, Solo
  <2>3. CASE ~ stopped /\ ~ stopped'
    BY <1>4, <2>3 DEF Stopped, Solo
  <2>4. CASE ~ stopped /\ stopped'
    <3>1. todo'[c] = << >> /\ ~ m_loop[w] /\ \A d \in App : "trigger" \notin Names(todo[d])
      BY <1>4, <2>4, BoundIs
    <3>2. ~ m_executing[w]
      BY <1>2, <3>1 DEF Goes
    <3>3. Place(todo[w]) # "run"
      BY <1>6, <3>2 DEF Marked
    <3>4. late = 0
      BY <2>4 DEF Stopped, Solo
    <3>5. late + ToCome(w) <= 1
      BY <3>3, <3>4 DEF ToCome, Runs, RunsAgain
    <3>6. QED BY <1>4, <1>5, <2>1, <2>4, <3>1, <3>5 DEF Stopped
  <2>5. QED BY <2>2, <2>3, <2>4
<1>8. Ended(w)'
  BY <1>2, <1>3 DEF Ended, Solo, Goes
<1>9. Untriggered(w)'
  BY <1>3, <1>4 DEF Untriggered, Solo
<1>10. ASSUME ~ looped', ~ overlapped' PROVE Orderly(w)'
  <2>1. Orderly(w)
    BY <1>4, <1>10 DEF Solo
  <2>2. Rests(w)' <=> Rests(w)
    BY <1>3, <1>4 DEF Rests
  <2>3. NoLoop(w)'
    BY <1>3, <1>4, <1>5, <2>1 DEF NoLoop, Orderly
  <2>4. OneCaller(w)'
    BY <1>2, <1>3, <1>5, <2>1 DEF OneCaller, Orderly
  <2>5. ~ broken' /\ owed' = IF trigger'[w] THEN 1 ELSE 0
    BY <1>4, <2>1 DEF Orderly
  <2>6. \A d \in App : Place(todo'[d]) \in {"wait executing", "trigger"} => ~ trigger'[w]
    <3>1. Place(todo'[c]) \in {"wait executing", "trigger"} => ~ trigger[w]
      BY <1>2, <1>6, <2>1 DEF Orderly, Goes
    <3>2. QED BY <1>3, <1>4, <2>1, <3>1 DEF Orderly
  <2>7. \A d \in App : Place(todo'[d]) = "assign" => Rests(w)'
    BY <1>2, <1>3, <2>1, <2>2 DEF Orderly, Goes
  <2>8. \A b \in joined' : /\ \A d \in App : "trigger" \notin Names(todo'[d])
                           /\ Place(todo'[b]) \in {"none", "wait call", "wait executing"}
                           /\ todo'[b] = << >> => Rests(w)'
    <3>1. SUFFICES ASSUME NEW b \in joined
                   PROVE  /\ \A d \in App : "trigger" \notin Names(todo'[d])
                          /\ Place(todo'[b]) \in {"none", "wait call", "wait executing"}
                          /\ todo'[b] = << >> => Rests(w)'
      BY <1>4
    <3>2. b \in App
      BY DEF TypeOK
    <3>3. /\ \A d \in App : "trigger" \notin Names(todo'[d])
          /\ Place(todo[b]) \in {"none", "wait call", "wait executing"}
          /\ todo[b] = << >> => Rests(w)
      BY <1>5, <2>1 DEF Orderly
    <3>4. CASE b # c
      BY <1>3, <2>2, <3>2, <3>3, <3>4
    <3>5. CASE b = c
      <4>1. Place(todo'[c]) \notin {"trigger", "set loop"}
        <5>1. todo'[c] # << >> => Place(todo'[c]) \in Names(todo'[c])
          BY <1>2, SoloPlace DEF SoloChains
        <5>2. "trigger" \notin Names(todo'[c]) /\ "set loop" \notin Names(todo'[c])
          BY <2>3, <3>3 DEF NoLoop
        <5>3. Place(todo'[c]) # "none" => Place(todo'[c]) \in Names(todo'[c])
          BY <1>2, <5>1
        <5>4. QED BY <5>2, <5>3
      <4>2. Place(todo'[c]) \in {"none", "wait call", "wait executing"}
        BY <1>2, <4>1 DEF Goes
      <4>3. ASSUME todo'[c] = << >> PROVE Rests(w)
        <5>1. Place(todo[c]) = "wait executing" /\ ~ m_executing[w]
          BY <1>2, <4>3 DEF Goes
        <5>2. ~ trigger[w]
          BY <2>1, <5>1 DEF Orderly
        <5>3. QED BY <1>6, <5>1, <5>2, SeenToRest
      <4>4. QED BY <2>2, <3>3, <3>5, <4>2, <4>3
    <3>6. QED BY <3>4, <3>5
  <2>9. todo'[w] # << >> /\ ~ Rests(w)' => m_function'[w]
    BY <1>3, <1>4, <2>1, <2>2 DEF Orderly
  <2>10. \A d \in App : "trigger" \in Names(todo'[d]) =>
                           m_function'[w] \/ Place(todo'[d]) = "assign"
    <3>1. Place(todo[c]) # "assign"
      BY <1>2 DEF Goes
    <3>2. QED BY <1>3, <1>4, <1>5, <2>1, <3>1 DEF Orderly
  <2>11. QED
    BY <2>3, <2>4, <2>5, <2>6, <2>7, <2>8, <2>9, <2>10, Zenon DEF Orderly
<1>11. QED BY <1>2, <1>6, <1>7, <1>8, <1>9, <1>10, Zenon DEF Solo, Moved

\* The statements that are not waits nor triggers.
LEMMA SoloExecutes ==
    ASSUME TypeOK, NEW w \in Worker, Solo(w), NEW c \in App,
           NEW x \in {"set loop", "clear loop", "stop", "wait end", "assign", "forget"},
           Executed(c, w, x),
           UNCHANGED <<m_call, trigger, m_executing, joined, looped, overlapped, owed, crossed,
                       stopped, late>>,
           x # "set loop" => (m_loop'[w] => m_loop[w]),
           x = "wait end" => todo[w] = << >>,
           x \notin {"assign", "forget"} => (m_function'[w] <=> m_function[w]),
           x = "assign" => m_function'[w],
           broken' => broken \/ (x \in {"assign", "forget"} /\ At(w, "running", w))
    PROVE  Solo(w)' /\ todo' \in Todo
<1>1. /\ Moved(c) /\ SoloChains(w)' /\ todo[c] # << >> /\ Place(todo[c]) = x
      /\ todo'[c] = << >> <=> Place(todo'[c]) = "none"
      /\ x \in Names(todo[c])
      /\ \A y : y \in Names(todo'[c]) => y \in Names(todo[c])
  BY Zenon DEF Executed
<1>2. /\ x = "set loop" => Place(todo'[c]) = "wait call"
      /\ x = "clear loop" => Place(todo'[c]) = "wait loop"
      /\ x = "stop" => Place(todo'[c]) = "wait end"
      /\ x = "wait end" => Place(todo'[c]) = "forget"
      /\ x = "assign" => Place(todo'[c]) = "wait call" \/ Place(todo'[c]) = "none"
      /\ x = "forget" => Place(todo'[c]) = "none"
  <2>1. PICK p : p = Place(todo'[c])
    OBVIOUS
  <2>2. <<x, p>> \in SoloMoves
    BY <2>1, Zenon DEF Executed
  <2>3. /\ x = "set loop" => p = "wait call"
        /\ x = "clear loop" => p = "wait loop"
        /\ x = "stop" => p = "wait end"
        /\ x = "wait end" => p = "forget"
        /\ x = "assign" => p = "wait call" \/ p = "none"
        /\ x = "forget" => p = "none"
    BY <2>2 DEF SoloMoves, SoloPairs, SoloLast
  <2>4. QED BY <2>1, <2>3, Zenon
<1>3. todo'[w] = todo[w] /\ \A d \in App : d # c => todo'[d] = todo[d]
  BY <1>1, AppFrame
<1>4. \A d \in App, y \in {"trigger", "set loop"} : y \in Names(todo'[d]) => y \in Names(todo[d])
  BY <1>1, <1>3
<1>5. Marked(w)'
  BY <1>3 DEF Solo, Marked
<1>6. Stopped(w)'
  <2>1. ToCome(w)' = ToCome(w)
    BY <1>3 DEF ToCome, Runs, RunsAgain
  <2>2. CASE stopped
    <3>1. x # "set loop"
      BY <1>1, <2>2 DEF Stopped, Solo, SoloChains
    <3>2. QED BY <1>4, <2>1, <2>2, <3>1 DEF Stopped, Solo
  <2>3. CASE ~ stopped
    BY <2>3 DEF Stopped, Solo
  <2>4. QED BY <2>2, <2>3
<1>7. Ended(w)'
  <2>1. Place(todo'[c]) = "forget" => todo[w] = << >>
    BY <1>2
  <2>2. QED BY <1>3, <2>1 DEF Ended, Solo
<1>8. Untriggered(w)'
  BY <1>3 DEF Untriggered, Solo
<1>9. ASSUME ~ looped', ~ overlapped' PROVE Orderly(w)'
  <2>1. Orderly(w)
    BY <1>9 DEF Solo
  <2>2. Rests(w)' <=> Rests(w)
    BY <1>3 DEF Rests
  <2>3. x # "set loop"
    BY <1>1, <2>1 DEF Orderly, NoLoop
  <2>4. NoLoop(w)'
    BY <1>3, <1>4, <2>1, <2>3 DEF NoLoop, Orderly
  <2>5. OneCaller(w)'
    BY <1>1, <1>3, <1>4, <2>1 DEF OneCaller, Orderly
  <2>6. x = "assign" => Rests(w)
    BY <1>1, <2>1 DEF Orderly
  <2>7. x = "forget" => todo[w] = << >>
    BY <1>1 DEF Ended, Solo
  <2>8. ~ broken'
    <3>1. x \in {"assign", "forget"} => ~ At(w, "running", w)
      <4>1. SUFFICES ASSUME x \in {"assign", "forget"}, At(w, "running", w) PROVE FALSE
        OBVIOUS
      <4>2. WorkerChain(todo[w], w)
        BY DEF Solo, SoloChains
      <4>3. Place(todo[w]) = "running" /\ todo[w] # << >>
        BY <4>1, <4>2, WorkerAt, Zenon
      <4>4. QED BY <2>6, <2>7, <4>1, <4>3 DEF Rests
    <3>2. QED BY <2>1, <3>1 DEF Orderly
  <2>9. owed' = IF trigger'[w] THEN 1 ELSE 0
    BY <2>1 DEF Orderly
  <2>10. \A d \in App : Place(todo'[d]) \in {"wait executing", "trigger"} => ~ trigger'[w]
    BY <1>2, <1>3, <2>1 DEF Orderly
  <2>11. \A d \in App : Place(todo'[d]) = "assign" => Rests(w)'
    BY <1>2, <1>3, <2>1, <2>2 DEF Orderly
  <2>12. \A b \in joined' : /\ \A d \in App : "trigger" \notin Names(todo'[d])
                            /\ Place(todo'[b]) \in {"none", "wait call", "wait executing"}
                            /\ todo'[b] = << >> => Rests(w)'
    <3>1. SUFFICES ASSUME NEW b \in joined
                   PROVE  /\ \A d \in App : "trigger" \notin Names(todo'[d])
                          /\ Place(todo'[b]) \in {"none", "wait call", "wait executing"}
                          /\ todo'[b] = << >> => Rests(w)'
      OBVIOUS
    <3>2. b \in App
      BY DEF TypeOK
    <3>3. /\ \A d \in App : "trigger" \notin Names(todo'[d])
          /\ Place(todo[b]) \in {"none", "wait call", "wait executing"}
          /\ todo[b] = << >> => Rests(w)
      BY <1>4, <2>1 DEF Orderly
    <3>4. b # c
      BY <1>1, <3>3
    <3>5. QED BY <1>3, <2>2, <3>2, <3>3, <3>4
  <2>13. todo'[w] # << >> /\ ~ Rests(w)' => m_function'[w]
    BY <1>3, <2>1, <2>2, <2>6, <2>7 DEF Orderly
  <2>14. \A d \in App : "trigger" \in Names(todo'[d]) =>
                           m_function'[w] \/ Place(todo'[d]) = "assign"
    <3>1. SUFFICES ASSUME NEW d \in App, "trigger" \in Names(todo'[d])
                   PROVE  m_function'[w] \/ Place(todo'[d]) = "assign"
      OBVIOUS
    <3>2. d = c \/ todo[c] = << >>
      BY <1>4, <2>1, <3>1 DEF Orderly, OneCaller
    <3>3. d = c
      BY <1>1, <3>2
    <3>4. x # "forget"
      <4>1. todo'[c] # << >>
        <5>1. todo'[c] = << >> => Names(todo'[c]) = {}
          BY <1>1, SoloPlace DEF SoloChains
        <5>2. QED BY <3>1, <3>3, <5>1
      <4>2. QED BY <1>1, <1>2, <4>1
    <3>5. "trigger" \in Names(todo[c])
      BY <1>4, <3>1, <3>3
    <3>6. x # "assign" => m_function[w]
      BY <1>1, <2>1, <3>5 DEF Orderly
    <3>7. QED BY <3>4, <3>6
  <2>15. QED
    BY <2>4, <2>5, <2>8, <2>9, <2>10, <2>11, <2>12, <2>13, <2>14, Zenon DEF Orderly
<1>10. QED BY <1>1, <1>5, <1>6, <1>7, <1>8, <1>9, Zenon DEF Solo, Moved

LEMMA SoloSets ==
    ASSUME TypeOK, NEW w \in Worker, Solo(w), NEW c \in App, NEW v \in Worker,
           SetFlag(c, v) \/ SetFunction(c, v) \/ WaitEnd(c, v)
    PROVE  Solo(w)' /\ todo' \in Todo
<1>1. SoloChains(w)
  BY DEF Solo
<1>2. m_loop \in [Worker -> BOOLEAN] /\ m_function \in [Worker -> BOOLEAN]
  BY TypeParts
<1>3. CASE SetFlag(c, v)
  <2>1. /\ UNCHANGED <<m_call, trigger, m_executing, m_function, joined, looped, overlapped,
                       owed, broken, crossed, stopped, late>>
        /\ Continue(c)
    BY <1>3, Zenon DEF SetFlag, history
  <2>2. PICK x \in {"set loop", "clear loop", "stop"} :
          /\ At(c, x, v)
          /\ x # "set loop" => (m_loop'[w] => m_loop[w])
    <3>1. CASE At(c, "set loop", v)
      BY <3>1
    <3>2. CASE At(c, "clear loop", v) /\ m_loop' = [m_loop EXCEPT ![v] = FALSE]
      BY <1>2, <3>2
    <3>3. CASE At(c, "stop", v) /\ m_loop' = m_loop
      BY <3>3
    <3>4. QED BY <1>3, <3>1, <3>2, <3>3, Zenon DEF SetFlag
  <2>3. v = w /\ Executed(c, w, x)
    BY <1>1, <2>1, <2>2, SoloContinues, Zenon
  <2>4. /\ x \in {"set loop", "clear loop", "stop", "wait end", "assign", "forget"}
        /\ x # "wait end" /\ x \notin {"assign", "forget"} /\ x # "assign"
    OBVIOUS
  <2>5. QED BY <2>1, <2>2, <2>3, <2>4, SoloExecutes
<1>4. CASE SetFunction(c, v)
  <2>1. /\ UNCHANGED <<m_call, trigger, m_loop, m_executing, joined, looped, overlapped, owed,
                       crossed, stopped, late>>
        /\ m_function' = [m_function EXCEPT ![v] = At(c, "assign", v)]
        /\ broken' = (broken \/ At(v, "running", v))
        /\ Continue(c)
    BY <1>4, Zenon DEF SetFunction, flags
  <2>2. PICK x \in {"assign", "forget"} : At(c, x, v)
    BY <1>4, Zenon DEF SetFunction
  <2>3. v = w /\ Executed(c, w, x)
    BY <1>1, <2>1, <2>2, SoloContinues, Zenon
  <2>4. x = "assign" => m_function'[w]
    BY <1>2, <2>1, <2>2, <2>3
  <2>5. QED BY <2>1, <2>2, <2>3, <2>4, SoloExecutes
<1>5. CASE WaitEnd(c, v)
  <2>1. /\ UNCHANGED <<m_call, trigger, m_loop, m_executing, m_function, joined, looped,
                       overlapped, owed, broken, crossed, stopped, late>>
        /\ At(c, "wait end", v) /\ todo[v] = << >> /\ Continue(c)
    BY <1>5, Zenon DEF WaitEnd, flags, history
  <2>2. v = w /\ Executed(c, w, "wait end")
    BY <1>1, <2>1, SoloContinues, Zenon
  <2>3. QED BY <2>1, <2>2, SoloExecutes
<1>6. QED BY <1>3, <1>4, <1>5

LEMMA SoloTrigger ==
    ASSUME TypeOK, NEW w \in Worker, Solo(w), NEW c \in App, NEW v \in Worker, Trigger(c, v)
    PROVE  Solo(w)' /\ todo' \in Todo
<1>1. /\ UNCHANGED <<m_call, m_loop, m_executing, m_function, joined, looped, overlapped,
                     broken, stopped, late>>
      /\ trigger' = [trigger EXCEPT ![m_call[v]] = TRUE]
      /\ owed' = IF c = v THEN owed ELSE owed + 1
      /\ crossed' = (crossed \/ (c # v /\ ~ WorkerIdle(v)))
      /\ At(c, "trigger", v) /\ Continue(c)
  BY Zenon DEF Trigger
<1>2. v = w /\ Executed(c, w, "trigger")
  BY <1>1, SoloContinues, Zenon DEF Solo
<1>3. /\ Moved(c) /\ SoloChains(w)' /\ todo[c] # << >> /\ Place(todo[c]) = "trigger"
      /\ todo'[c] = << >> <=> Place(todo'[c]) = "none"
      /\ "trigger" \in Names(todo[c])
  BY <1>2, Zenon DEF Executed
<1>4. todo'[c] = << >> /\ Names(todo'[c]) = {}
  <2>1. PICK p : p = Place(todo'[c])
    OBVIOUS
  <2>2. <<"trigger", p>> \in SoloMoves
    BY <1>2, <2>1, Zenon DEF Executed
  <2>3. p = "none"
    BY <2>2 DEF SoloMoves, SoloPairs, SoloLast
  <2>4. todo'[c] = << >>
    BY <1>3, <2>1, <2>3
  <2>5. QED BY <2>4, NamedEmpty, Zenon
<1>5. todo'[w] = todo[w] /\ \A d \in App : d # c => todo'[d] = todo[d]
  BY <1>3, AppFrame
<1>6. c # w
  BY ThreadAssumption
<1>7. Marked(w)
  BY DEF Solo
<1>8. trigger'[w] /\ owed' = owed + 1
  <2>1. m_call[w] = w
    BY <1>7 DEF Marked
  <2>2. trigger' = [trigger EXCEPT ![w] = TRUE]
    BY <1>1, <1>2, <2>1
  <2>3. QED BY <1>1, <1>2, <1>6, <2>2 DEF TypeOK
<1>9. Marked(w)'
  BY <1>1, <1>5, <1>7, <1>8 DEF Marked
<1>10. Stopped(w)'
  BY <1>1, <1>3 DEF Stopped, Solo
<1>11. Ended(w)'
  <2>1. Place(todo'[c]) # "forget"
    BY <1>3, <1>4
  <2>2. QED BY <1>5, <2>1 DEF Ended, Solo
<1>12. Untriggered(w)'
  <2>1. SUFFICES ASSUME ~ crossed'
                 PROVE  Place(todo'[w]) = "while" \/ Place(todo'[w]) = "poll"
    BY DEF Untriggered
  <2>2. WorkerIdle(w)
    BY <1>1, <1>2, <1>6, <2>1
  <2>3. At(w, "while", w) \/ At(w, "poll", w)
    BY <2>2 DEF WorkerIdle
  <2>4. WorkerChain(todo[w], w)
    BY DEF Solo, SoloChains
  <2>5. QED BY <1>5, <2>3, <2>4, WorkerAt, Zenon
<1>13. ASSUME ~ looped', ~ overlapped' PROVE Orderly(w)'
  <2>1. Orderly(w)
    BY <1>1, <1>13 DEF Solo
  <2>2. \A d \in App : d # c => todo[d] = << >> /\ Names(todo[d]) = {} /\ Place(todo[d]) = "none"
    <3>1. \A d \in App : d # c => todo[d] = << >>
      BY <1>3, <2>1 DEF Orderly, OneCaller
    <3>2. QED BY <3>1, NamedEmpty, Zenon
  <2>3. \A d \in App : todo'[d] = << >> /\ Names(todo'[d]) = {} /\ Place(todo'[d]) = "none"
    BY <1>3, <1>4, <1>5, <2>2
  <2>4. ~ trigger[w] /\ m_function[w] /\ joined = {}
    BY <1>3, <2>1 DEF Orderly
  <2>5. NoLoop(w)'
    BY <1>1, <1>5, <2>1, <2>3 DEF NoLoop, Orderly
  <2>6. OneCaller(w)'
    BY <2>3 DEF OneCaller
  <2>7. owed' = IF trigger'[w] THEN 1 ELSE 0
    <3>1. owed = IF trigger[w] THEN 1 ELSE 0
      BY <2>1 DEF Orderly
    <3>2. owed = 0
      BY <2>4, <3>1
    <3>3. QED BY <1>8, <3>2
  <2>8. ~ broken' /\ m_function'[w] /\ joined' = {}
    BY <1>1, <2>1, <2>4 DEF Orderly
  <2>9. QED BY <2>3, <2>5, <2>6, <2>7, <2>8 DEF Orderly
<1>14. QED BY <1>3, <1>9, <1>10, <1>11, <1>12, <1>13, Zenon DEF Solo, Moved

\* What the steps of the worker have to keep.
LEMMA OrderlyWorks ==
    ASSUME NEW w, Orderly(w), UNCHANGED <<m_loop, joined>>,
           \A d \in App : todo'[d] = todo[d],
           Place(todo'[w]) \notin {"wait call", "wait executing", "trigger"},
           ~ broken', owed' = IF trigger'[w] THEN 1 ELSE 0,
           trigger'[w] => trigger[w], Rests(w) => Rests(w)',
           todo'[w] # << >> /\ ~ Rests(w)' => m_function'[w],
           m_function[w] => m_function'[w], joined \subseteq App
    PROVE  Orderly(w)'
<1>1. NoLoop(w)' /\ OneCaller(w)'
  BY DEF NoLoop, OneCaller, Orderly
<1>2. /\ \A c \in App : Place(todo'[c]) \in {"wait executing", "trigger"} => ~ trigger'[w]
      /\ \A c \in App : Place(todo'[c]) = "assign" => Rests(w)'
  BY DEF Orderly
<1>3. \A c \in joined' :
         /\ \A d \in App : "trigger" \notin Names(todo'[d])
         /\ Place(todo'[c]) \in {"none", "wait call", "wait executing"}
         /\ todo'[c] = << >> => Rests(w)'
  BY DEF Orderly
<1>4. \A c \in App : "trigger" \in Names(todo'[c]) =>
                        m_function'[w] \/ Place(todo'[c]) = "assign"
  BY DEF Orderly
<1>5. QED BY <1>1, <1>2, <1>3, <1>4, Zenon DEF Orderly

LEMMA EndedWorks ==
    ASSUME NEW w, Ended(w), \A d \in App : todo'[d] = todo[d], todo[w] # << >>
    PROVE  Ended(w)'
BY DEF Ended

LEMMA StoppedWorks ==
    ASSUME NEW w, Stopped(w), UNCHANGED <<m_loop, stopped>>,
           \A d \in App : todo'[d] = todo[d],
           stopped /\ ~ m_loop[w] => late' + ToCome(w)' <= late + ToCome(w),
           late \in Nat, late' \in Nat, ToCome(w) \in Nat, ToCome(w)' \in Nat,
           ~ stopped => late' = late
    PROVE  Stopped(w)'
<1>1. CASE stopped
  <2>1. ~ m_loop[w] /\ late + ToCome(w) <= 1
    BY <1>1 DEF Stopped
  <2>2. late' + ToCome(w)' <= 1
    BY <1>1, <2>1
  <2>3. QED BY <1>1, <2>1, <2>2 DEF Stopped
<1>2. CASE ~ stopped
  BY <1>2 DEF Stopped
<1>3. QED BY <1>1, <1>2

LEMMA ToComeIs ==
    ASSUME NEW w
    PROVE  /\ ToCome(w) \in Nat
           /\ ~ Runs(w) /\ ~ RunsAgain(w) => ToCome(w) = 0
           /\ ~ Runs(w) /\ RunsAgain(w) => ToCome(w) = 1
           /\ Runs(w) /\ ~ RunsAgain(w) => ToCome(w) = 1
           /\ Runs(w) /\ RunsAgain(w) => ToCome(w) = 2
<1>1. PICK a \in {0, 1} : a = (IF Runs(w) THEN 1 ELSE 0)
  OBVIOUS
<1>2. PICK b \in {0, 1} : b = (IF RunsAgain(w) THEN 1 ELSE 0)
  OBVIOUS
<1>3. ToCome(w) = a + b
  BY <1>1, <1>2, Zenon DEF ToCome
<1>4. QED BY <1>1, <1>2, <1>3

LEMMA ToComeThen ==
    ASSUME NEW w
    PROVE  /\ ToCome(w)' \in Nat
           /\ ~ Runs(w)' /\ ~ RunsAgain(w)' => ToCome(w)' = 0
           /\ ~ Runs(w)' /\ RunsAgain(w)' => ToCome(w)' = 1
           /\ Runs(w)' /\ ~ RunsAgain(w)' => ToCome(w)' = 1
           /\ Runs(w)' /\ RunsAgain(w)' => ToCome(w)' = 2
<1>1. PICK a \in {0, 1} : a = (IF Runs(w)' THEN 1 ELSE 0)
  OBVIOUS
<1>2. PICK b \in {0, 1} : b = (IF RunsAgain(w)' THEN 1 ELSE 0)
  OBVIOUS
<1>3. ToCome(w)' = a + b
  BY <1>1, <1>2, Zenon DEF ToCome
<1>4. QED BY <1>1, <1>2, <1>3

LEMMA SoloPoll ==
    ASSUME TypeOK, NEW w \in Worker, Solo(w), Poll(w)
    PROVE  Solo(w)' /\ todo' \in Todo
<1>1. WorkerChain(todo[w], w) /\ Marked(w)
  BY DEF Solo, SoloChains
<1>2. /\ Moved(w) /\ WorkerChain(todo'[w], w) /\ todo[w] # << >>
      /\ \/ Place(todo[w]) = "while" /\ Place(todo'[w]) \in {"poll", "none"}
         \/ Place(todo[w]) = "poll" /\ Triggered(w) /\ Place(todo'[w]) = "enter"
         \/ Place(todo[w]) = "poll" /\ ~ Triggered(w) /\ Place(todo'[w]) = "while"
  BY <1>1, PollMoves
<1>3. SoloChains(w)' /\ \A d \in App : todo'[d] = todo[d]
  BY <1>2, WorkerKeeps DEF Solo
<1>4. UNCHANGED <<m_call, trigger, m_loop, m_executing, m_function, joined, looped, overlapped,
                  owed, broken, crossed, stopped, late>>
  BY Zenon DEF Poll, flags, history
<1>5. Triggered(w) <=> trigger[w]
  BY <1>1 DEF Marked, Triggered
<1>6. Marked(w)'
  BY <1>1, <1>2, <1>4, <1>5 DEF Marked
<1>7. Stopped(w)'
  <2>1. ToCome(w)' = ToCome(w)
    BY <1>2, <1>4 DEF ToCome, Runs, RunsAgain
  <2>2. QED BY <1>3, <1>4, <2>1 DEF Stopped, Solo
<1>8. Ended(w)'
  BY <1>2, <1>3, EndedWorks DEF Solo
<1>9. Untriggered(w)'
  BY <1>2 DEF Untriggered
<1>10. ASSUME ~ looped', ~ overlapped' PROVE Orderly(w)'
  <2>1. Orderly(w)
    BY <1>4, <1>10 DEF Solo
  <2>2. Rests(w) => Rests(w)'
    BY <1>2, <1>4, <1>5 DEF Rests, Early
  <2>3. ~ Rests(w)' => ~ Rests(w)
    BY <1>2, <1>4, <1>5 DEF Rests, Early
  <2>4. todo'[w] # << >> /\ ~ Rests(w)' => m_function'[w]
    BY <1>2, <1>4, <2>1, <2>3 DEF Orderly
  <2>5. Place(todo'[w]) \notin {"wait call", "wait executing", "trigger"}
    BY <1>2
  <2>6. ~ broken' /\ owed' = IF trigger'[w] THEN 1 ELSE 0
    BY <1>4, <2>1 DEF Orderly
  <2>7. joined \subseteq App
    BY DEF TypeOK
  <2>8. QED BY <1>3, <1>4, <2>1, <2>2, <2>4, <2>5, <2>6, <2>7, OrderlyWorks
<1>11. QED BY <1>2, <1>3, <1>6, <1>7, <1>8, <1>9, <1>10, Zenon DEF Solo, Moved

LEMMA SoloRun ==
    ASSUME TypeOK, NEW w \in Worker, Solo(w), RunStep(w)
    PROVE  Solo(w)' /\ todo' \in Todo
<1>1. WorkerChain(todo[w], w) /\ Marked(w)
  BY DEF Solo, SoloChains
<1>2. /\ Moved(w) /\ WorkerChain(todo'[w], w) /\ todo[w] # << >> /\ todo'[w] # << >>
      /\ \/ /\ Goes(w, "enter", "disable")
            /\ m_executing' = [m_executing EXCEPT ![w] = TRUE]
            /\ UNCHANGED <<trigger, owed, broken, late, served>>
         \/ /\ Goes(w, "disable", "run")
            /\ trigger' = [trigger EXCEPT ![m_call[w]] = FALSE]
            /\ owed' = IF owed > 0 THEN owed - 1 ELSE 0
            /\ UNCHANGED <<m_executing, broken, late, served>>
         \/ /\ Goes(w, "run", "running")
            /\ broken' = (broken \/ ~ m_function[w])
            /\ late' = IF stopped THEN late + 1 ELSE late
            /\ served' = served \cup {w}
            /\ UNCHANGED <<trigger, m_executing, owed>>
         \/ /\ Goes(w, "running", "leave")
            /\ UNCHANGED <<trigger, m_executing, owed, broken, late, served>>
         \/ /\ Goes(w, "leave", "again")
            /\ m_executing' = [m_executing EXCEPT ![w] = FALSE]
            /\ UNCHANGED <<trigger, owed, broken, late, served>>
         \/ /\ Place(todo[w]) = "again"
            /\ Place(todo'[w]) = IF m_loop[w] THEN "wait call" ELSE "while"
            /\ UNCHANGED <<trigger, m_executing, owed, broken, late, served>>
  BY <1>1, RunMoves
<1>3. SoloChains(w)' /\ \A d \in App : todo'[d] = todo[d]
  BY <1>2, WorkerKeeps DEF Solo
<1>4. UNCHANGED <<m_call, m_loop, m_function, joined, looped, overlapped, crossed, stopped>>
  BY Zenon DEF RunStep
<1>5. m_call[w] = w
  BY <1>1 DEF Marked
<1>6. /\ m_executing' = m_executing \/ m_executing' = [m_executing EXCEPT ![w] = TRUE]
           \/ m_executing' = [m_executing EXCEPT ![w] = FALSE]
      /\ Place(todo[w]) = "enter" => m_executing'[w]
      /\ Place(todo[w]) = "leave" => ~ m_executing'[w]
      /\ Place(todo[w]) \notin {"enter", "leave"} => m_executing' = m_executing
  BY <1>2 DEF TypeOK, Goes
<1>7. /\ Place(todo[w]) = "disable" => ~ trigger'[w]
      /\ Place(todo[w]) # "disable" => trigger' = trigger
  BY <1>2, <1>5 DEF TypeOK, Goes
<1>8. Marked(w)'
  BY <1>1, <1>2, <1>4, <1>6, <1>7 DEF Marked, Goes
<1>9. Stopped(w)'
  <2>1. late \in Nat /\ late' \in Nat
    <3>1. late \in Nat
      BY TypeParts
    <3>2. late' = late \/ late' = IF stopped THEN late + 1 ELSE late
      BY <1>2, Zenon
    <3>3. QED BY <3>1, <3>2
  <2>2. ASSUME stopped, ~ m_loop[w] PROVE late' + ToCome(w)' <= late + ToCome(w)
    <3>1. CASE Place(todo[w]) = "disable"
      <4>1. /\ ~ Runs(w) /\ RunsAgain(w) /\ Runs(w)' /\ ~ RunsAgain(w)' /\ late' = late
        BY <1>1, <1>2, <1>7, <3>1 DEF Runs, RunsAgain, Goes, Marked
      <4>2. ToCome(w) = 1 /\ ToCome(w)' = 1
        BY <4>1, ToComeIs, ToComeThen
      <4>3. QED BY <2>1, <4>1, <4>2
    <3>2. CASE Place(todo[w]) = "run"
      <4>1. /\ Runs(w) /\ ~ Runs(w)' /\ (RunsAgain(w)' <=> RunsAgain(w)) /\ late' = late + 1
        BY <1>2, <1>7, <2>2, <3>2 DEF Runs, RunsAgain, Goes
      <4>2. ToCome(w) = ToCome(w)' + 1
        BY <4>1, ToComeIs, ToComeThen
      <4>3. QED BY <2>1, <4>1, <4>2, ToComeThen
    <3>3. CASE Place(todo[w]) \notin {"disable", "run"}
      <4>1. /\ ~ Runs(w) /\ ~ Runs(w)' /\ (RunsAgain(w)' <=> RunsAgain(w)) /\ late' = late
        BY <1>2, <1>7, <2>2, <3>3 DEF Runs, RunsAgain, Goes
      <4>2. ToCome(w)' = ToCome(w)
        BY <4>1, ToComeIs, ToComeThen
      <4>3. QED BY <2>1, <4>1, <4>2, ToComeIs
    <3>4. QED BY <3>1, <3>2, <3>3
  <2>3. ~ stopped => late' = late
    BY <1>2
  <2>4. ToCome(w) \in Nat /\ ToCome(w)' \in Nat
    BY ToComeIs, ToComeThen
  <2>5. QED BY <1>3, <1>4, <2>1, <2>2, <2>3, <2>4, StoppedWorks DEF Solo
<1>10. Ended(w)'
  BY <1>2, <1>3, EndedWorks DEF Solo
<1>11. Untriggered(w)'
  BY <1>2, <1>4, <1>7 DEF Untriggered, Solo, Goes
<1>12. ASSUME ~ looped', ~ overlapped' PROVE Orderly(w)'
  <2>1. Orderly(w) /\ ~ m_loop[w] /\ ~ broken
    BY <1>4, <1>12 DEF Solo, Orderly, NoLoop
  <2>2. trigger'[w] => trigger[w]
    BY <1>7
  <2>3. Rests(w) => Rests(w)'
    BY <1>2, <2>1, <2>2 DEF Rests, Early, Goes
  <2>4. ~ Rests(w)' => ~ Rests(w)
    BY <1>2, <2>1, <2>2 DEF Rests, Early, Goes
  <2>5. ~ Rests(w) => m_function[w]
    BY <1>2, <2>1 DEF Orderly
  <2>6. todo'[w] # << >> /\ ~ Rests(w)' => m_function'[w]
    BY <1>4, <2>4, <2>5
  <2>7. Place(todo'[w]) \notin {"wait call", "wait executing", "trigger"}
    BY <1>2, <2>1 DEF Goes
  <2>8. Place(todo[w]) = "run" => m_function[w]
    BY <2>5 DEF Rests, Early
  <2>9. ~ broken'
    BY <1>2, <2>1, <2>8 DEF Goes
  <2>10. owed' = IF trigger'[w] THEN 1 ELSE 0
    <3>1. owed = IF trigger[w] THEN 1 ELSE 0
      BY <2>1 DEF Orderly
    <3>2. CASE Place(todo[w]) = "disable"
      <4>1. trigger[w] /\ owed = 1
        BY <1>1, <3>1, <3>2 DEF Marked
      <4>2. owed' = 0
        BY <1>2, <3>2, <4>1 DEF Goes
      <4>3. QED BY <1>7, <3>2, <4>2
    <3>3. CASE Place(todo[w]) # "disable"
      BY <1>2, <1>7, <3>1, <3>3 DEF Goes
    <3>4. QED BY <3>2, <3>3
  <2>11. joined \subseteq App
    BY DEF TypeOK
  <2>12. QED
    BY <1>3, <1>4, <2>1, <2>2, <2>3, <2>6, <2>7, <2>9, <2>10, <2>11, OrderlyWorks
<1>13. QED BY <1>2, <1>3, <1>8, <1>9, <1>10, <1>11, <1>12, Zenon DEF Solo, Moved

\* The worker that waits to call itself.
LEMMA SoloCallsItself ==
    ASSUME TypeOK, NEW w \in Worker, Solo(w), NEW v \in Worker, Wait(w, v) \/ Trigger(w, v)
    PROVE  Solo(w)' /\ todo' \in Todo
<1>1. WorkerChain(todo[w], w) /\ Marked(w)
  BY DEF Solo, SoloChains
<1>2. /\ Moved(w) /\ WorkerChain(todo'[w], w) /\ todo[w] # << >> /\ todo'[w] # << >>
      /\ \/ /\ Wait(w, v) /\ stopped' = stopped
            /\ Place(todo[w]) \in {"wait call", "wait executing"}
            /\ Place(todo'[w]) \in {"wait call", "wait executing", "trigger"}
         \/ v = w /\ Trigger(w, w) /\ Goes(w, "trigger", "while")
  <2>1. CASE Wait(w, v)
    <3>1. /\ Moved(w) /\ WorkerChain(todo'[w], w) /\ todo[w] # << >> /\ todo'[w] # << >>
          /\ stopped' = stopped
          /\ \/ Goes(w, "wait call", "wait executing")
             \/ Goes(w, "wait executing", "wait call")
             \/ Goes(w, "wait executing", "trigger")
      BY <1>1, <2>1, WorkerWaits, Zenon
    <3>2. QED BY <2>1, <3>1 DEF Goes
  <2>2. CASE Trigger(w, v)
    BY <1>1, <2>2, WorkerTriggers, Zenon
  <2>3. QED BY <2>1, <2>2
<1>3. SoloChains(w)' /\ \A d \in App : todo'[d] = todo[d]
  BY <1>2, WorkerKeeps DEF Solo
<1>4. UNCHANGED <<m_call, m_loop, m_executing, looped, overlapped, stopped, late>>
  <2>1. CASE Wait(w, v) /\ stopped' = stopped
    BY <2>1, Zenon DEF Wait, flags
  <2>2. CASE Trigger(w, w)
    BY <2>2, Zenon DEF Trigger
  <2>3. QED BY <1>2, <2>1, <2>2
<1>5. m_call[w] = w
  BY <1>1 DEF Marked
<1>6. /\ Place(todo[w]) \in {"wait call", "wait executing"} => UNCHANGED <<trigger, crossed>>
      /\ Place(todo[w]) = "trigger" => trigger'[w]
  <2>1. CASE Wait(w, v) /\ Place(todo[w]) \in {"wait call", "wait executing"}
    <3>1. UNCHANGED <<trigger, crossed>>
      BY <2>1, Zenon DEF Wait, flags
    <3>2. QED BY <2>1, <3>1
  <2>2. CASE Trigger(w, w) /\ Place(todo[w]) = "trigger"
    <3>1. trigger' = [trigger EXCEPT ![w] = TRUE]
      BY <1>5, <2>2, Zenon DEF Trigger
    <3>2. QED BY <2>2, <3>1 DEF TypeOK
  <2>3. QED BY <1>2, <2>1, <2>2 DEF Goes
<1>7. Marked(w)'
  BY <1>1, <1>2, <1>4 DEF Marked, Goes
<1>8. Stopped(w)'
  <2>1. ~ Runs(w) /\ RunsAgain(w) /\ ~ Runs(w)' /\ RunsAgain(w)'
    BY <1>2, <1>6 DEF Runs, RunsAgain, Goes
  <2>2. ToCome(w) = 1 /\ ToCome(w)' = 1
    BY <2>1, ToComeIs, ToComeThen
  <2>3. QED BY <1>3, <1>4, <2>2 DEF Stopped, Solo
<1>9. Ended(w)'
  BY <1>2, <1>3, EndedWorks DEF Solo
<1>10. Untriggered(w)'
  <2>1. CASE Place(todo[w]) = "trigger"
    BY <1>2, <2>1 DEF Untriggered, Goes
  <2>2. CASE Place(todo[w]) \in {"wait call", "wait executing"}
    <3>1. trigger' = trigger /\ crossed' = crossed
      BY <1>6, <2>2
    <3>2. ~ (~ crossed /\ trigger[w])
      BY <2>2 DEF Untriggered, Solo
    <3>3. ~ (~ crossed' /\ trigger'[w])
      BY <3>1, <3>2
    <3>4. QED BY <3>3, Zenon DEF Untriggered
  <2>3. QED BY <1>2, <2>1, <2>2 DEF Goes
<1>11. ~ looped' /\ ~ overlapped' => Orderly(w)'
  <2>1. ~ looped /\ ~ overlapped => NoLoop(w)
    BY DEF Solo, Orderly
  <2>2. ~ NoLoop(w)
    BY <1>2 DEF NoLoop, Goes
  <2>3. QED BY <1>4, <2>1, <2>2
<1>12. QED BY <1>2, <1>3, <1>7, <1>8, <1>9, <1>10, <1>11, Zenon DEF Solo, Moved

\* A thread of the application does nothing else.
LEMMA SoloOnly ==
    ASSUME NEW w \in Worker, SoloChains(w), NEW c \in App, NEW v
    PROVE  ~ Link(c, v) /\ ~ TriggerGroup(c)
<1>1. ASSUME NEW x \in {"delete", "clear", "acquire", "trigger group"}, NEW u PROVE ~ At(c, x, u)
  <2>1. x \notin SoloNames
    BY DEF SoloNames
  <2>2. SUFFICES ASSUME At(c, x, u) PROVE FALSE
    OBVIOUS
  <2>3. Place(todo[c]) = x /\ todo[c] # << >>
    BY <2>2, SoloAt, Zenon
  <2>4. Place(todo[c]) \in SoloNames
    BY <2>3, SoloPlace DEF SoloChains
  <2>5. QED BY <2>1, <2>3, <2>4, Zenon
<1>2. QED BY <1>1 DEF Link, TriggerGroup

\* The trigger of the one worker is always there.
LEMMA SoloReads ==
    ASSUME NEW w \in Worker, Solo(w), NEW t \in App \cup {w}, NEW v
    PROVE  ~ Misread(t, v)
<1>1. SUFFICES ASSUME NEW x, At(t, x, v), ~ Readable(v) PROVE FALSE
  BY DEF Misread, Reads
<1>2. SoloChains(w) /\ Marked(w) /\ WorkerChain(todo[w], w)
  BY DEF Solo, SoloChains
<1>3. v = w
  <2>1. CASE t \in App
    BY <1>1, <1>2, <2>1, SoloAt, Zenon
  <2>2. CASE t = w
    BY <1>1, <1>2, <2>2, WorkerAt, Zenon
  <2>3. QED BY <2>1, <2>2
<1>4. QED BY <1>1, <1>2, <1>3 DEF Marked, Readable

LEMMA NothingToDo ==
    ASSUME NEW t, todo[t] = << >>
    PROVE  ~ Step(t)
<1>1. \A x, u : ~ At(t, x, u)
  BY DEF At
<1>2. ASSUME NEW u PROVE /\ ~ Wait(t, u) /\ ~ Trigger(t, u) /\ ~ Link(t, u) /\ ~ Misread(t, u)
                         /\ ~ SetFlag(t, u) /\ ~ SetFunction(t, u) /\ ~ WaitEnd(t, u)
  BY <1>1, Zenon DEF Wait, Trigger, Link, Misread, Reads, SetFlag, SetFunction, WaitEnd
<1>3. ~ Poll(t) /\ ~ RunStep(t) /\ ~ TriggerGroup(t)
  BY <1>1, Zenon DEF Poll, RunStep, TriggerGroup
<1>4. QED BY <1>2, <1>3, Zenon DEF Step

LEMMA SoloNext ==
    ASSUME TypeOK, NEW w \in Worker, Solo(w), group = {}, Next
    PROVE  Solo(w)' /\ todo' \in Todo
<1>1. ASSUME NEW c \in App, NEW v \in Worker, NEW op \in Operation, Begin(c, v, op)
      PROVE  Solo(w)' /\ todo' \in Todo
  BY <1>1, SoloBegin
<1>2. ASSUME NEW c \in App, NEW op, BeginGroup(c, op) PROVE FALSE
  BY <1>2 DEF BeginGroup
<1>3. ASSUME NEW c \in App, Step(c) PROVE Solo(w)' /\ todo' \in Todo
  <2>1. c \notin Worker
    BY ThreadAssumption
  <2>2. SoloChains(w)
    BY DEF Solo
  <2>3. PICK v \in Worker : \/ Wait(c, v) \/ Trigger(c, v)
                            \/ SetFlag(c, v) \/ SetFunction(c, v) \/ WaitEnd(c, v)
    BY <1>3, <2>1, <2>2, SoloOnly, SoloReads, Zenon DEF Step
  <2>4. QED BY <2>3, SoloWait, SoloTrigger, SoloSets, Zenon
<1>4. ASSUME NEW t \in Worker, Step(t) PROVE Solo(w)' /\ todo' \in Todo
  <2>1. t = w
    <3>1. t # w => todo[t] = << >>
      BY DEF Solo, SoloChains
    <3>2. QED BY <1>4, <3>1, NothingToDo, Zenon
  <2>2. WorkerChain(todo[w], w)
    BY DEF Solo, SoloChains
  <2>3. \A v \in Worker : /\ ~ Link(w, v) /\ ~ SetFlag(w, v) /\ ~ SetFunction(w, v)
                          /\ ~ WaitEnd(w, v) /\ ~ TriggerGroup(w) /\ ~ Misread(w, v)
    BY <2>2, WorkerOnly, SoloReads
  <2>4. Step(w)
    BY <1>4, <2>1
  <2>5. CASE \E v \in Worker : Wait(w, v) \/ Trigger(w, v)
    BY <2>5, SoloCallsItself, Zenon
  <2>6. CASE Poll(w)
    BY <2>6, SoloPoll
  <2>7. CASE RunStep(w)
    BY <2>7, SoloRun
  <2>8. QED BY <2>3, <2>4, <2>5, <2>6, <2>7, Zenon DEF Step
<1>5. Thread = App \cup Worker
  BY DEF Thread
<1>6. CASE \E t \in Thread : Step(t)
  BY <1>3, <1>4, <1>5, <1>6
<1>7. QED BY <1>1, <1>2, <1>6, Zenon DEF Next

LEMMA SoloInit ==
    ASSUME Init, group = {}
    PROVE  TypeOK /\ TheWorker \in Worker /\ Solo(TheWorker)
<1>1. TheWorker \in Worker
  BY ThreadAssumption DEF TheWorker
<1>2. PICK w \in Worker : w = TheWorker /\ w \notin App
  BY <1>1, ThreadAssumption
<1>3. \A t \in Thread : todo[t] = IF t = w THEN <<<<"while", t>>>> ELSE << >>
  BY <1>2 DEF Init, TheWorker
<1>4. todo[w] = <<<<"while", w>>>>
  BY <1>3 DEF Thread
<1>5. \A v \in Worker : v # w => todo[v] = << >>
  BY <1>3 DEF Thread
<1>6. \A c \in App : todo[c] = << >>
  BY <1>2, <1>3 DEF Thread
<1>7. SoloChain(<< >>, w) /\ Place(<< >>) = "none" /\ Names(<< >>) = {}
  BY NamedEmpty DEF SoloChain
<1>8. WorkerChain(todo[w], w) /\ Place(todo[w]) = "while" /\ todo[w] # << >>
  BY <1>4, WorkerLoops, Zenon
<1>9. SoloChains(w)
  BY <1>5, <1>6, <1>7, <1>8 DEF SoloChains
<1>10. /\ m_call[w] = w /\ ~ trigger[w] /\ ~ m_loop[w] /\ ~ m_executing[w]
       /\ joined = App /\ owed = 0 /\ late = 0 /\ ~ stopped /\ ~ broken
  BY DEF Init
<1>11. \A c \in App : Place(todo[c]) = "none" /\ Names(todo[c]) = {}
  BY <1>6, <1>7
<1>12. Marked(w) /\ Stopped(w) /\ Ended(w) /\ Untriggered(w) /\ Rests(w)
  BY <1>8, <1>10, <1>11 DEF Marked, Stopped, Ended, Untriggered, Rests, Early
<1>13. NoLoop(w) /\ OneCaller(w)
  BY <1>8, <1>10, <1>11 DEF NoLoop, OneCaller
<1>14. Orderly(w)
  BY <1>10, <1>11, <1>12, <1>13 DEF Orderly
<1>15. Solo(w)
  BY <1>9, <1>12, <1>14, Zenon DEF Solo
<1>16. TypeOK
  <2>1. todo \in Todo
    <3>1. << >> \in Seq(Name \X (Worker \cup {m_execute_start}))
      OBVIOUS
    <3>2. <<<<"while", w>>>> \in Seq(Name \X (Worker \cup {m_execute_start}))
      <4>1. WorkerNames \in SUBSET Name
        BY DEF WorkerNames, Name
      <4>2. WorkerChain(<<<<"while", w>>>>, w)
        BY <1>4, <1>8
      <4>3. QED BY <4>1, <4>2, NamedTyped, Zenon DEF WorkerChain
    <3>3. todo = [t \in Thread |-> IF t = w THEN <<<<"while", t>>>> ELSE << >>]
      BY <1>2 DEF Init, TheWorker
    <3>4. QED BY <3>1, <3>2, <3>3 DEF Todo
  <2>2. /\ m_call \in [Worker -> Worker \cup {m_execute_start, Freed, Null}]
        /\ trigger \in [Worker \cup {m_execute_start} -> BOOLEAN]
        /\ m_persist \in [Worker -> BOOLEAN] /\ m_loop \in [Worker -> BOOLEAN]
        /\ m_executing \in [Worker -> BOOLEAN] /\ m_function \in [Worker -> BOOLEAN]
    BY DEF Init
  <2>3. QED BY <2>1, <2>2, TypeParts DEF Init
<1>17. QED BY <1>2, <1>15, <1>16, Zenon

-----------------------------------------------------------------------------
(* The operations on a group are chains *)

\* Sequences that are chains each, with the first in F.
Blocks(ss, S, N, L, F) ==
    /\ ss \in Seq(Seq(S))
    /\ \A i \in 1 .. Len(ss) : Chain(ss[i], S, N, L) /\ ss[i] # << >> /\ ss[i][1] \in F

\* One chain of them all.
Joins(s, ss, S, N, L, F) ==
    /\ Chain(s, S, N, L) /\ s # << >> /\ s[1] \in F
    /\ \A i \in 1 .. Len(ss) : ToSet(ss[i]) \subseteq ToSet(s)

LEMMA FlattenChain ==
    ASSUME NEW S, NEW N, NEW L, NEW F, \A k \in L, a \in F : <<k, a>> \in N,
           NEW ss, Blocks(ss, S, N, L, F), ss # << >>
    PROVE  Joins(FlattenSeq(ss), ss, S, N, L, F)
<1>1. PICK I : I = {n \in Nat : \A us \in Seq(Seq(S)) :
                      Len(us) = n + 1 /\ Blocks(us, S, N, L, F)
                          => Joins(FlattenSeq(us), us, S, N, L, F)}
  OBVIOUS
<1>2. 0 \in I
  <2>1. SUFFICES ASSUME NEW us \in Seq(Seq(S)), Len(us) = 1, Blocks(us, S, N, L, F)
                 PROVE  Joins(FlattenSeq(us), us, S, N, L, F)
    BY <1>1
  <2>2. PICK v \in Seq(S) : v = us[1]
    BY <2>1
  <2>3. Chain(v, S, N, L) /\ v # << >> /\ v[1] \in F
    BY <2>1, <2>2 DEF Blocks
  <2>4. PICK e \in Seq(Seq(S)) : e = << >>
    <3>1. << >> \in Seq(Seq(S))
      OBVIOUS
    <3>2. QED BY <3>1, Zenon
  <2>5. us = Append(e, v)
    BY <2>1, <2>2, <2>4
  <2>6. FlattenSeq(us) = FlattenSeq(e) \o v
    BY <2>5, FlattenProperties
  <2>7. FlattenSeq(e) = << >>
    BY <2>4, FlattenEmpty, Zenon
  <2>8. FlattenSeq(us) = v
    BY <2>6, <2>7
  <2>9. \A i \in 1 .. Len(us) : ToSet(us[i]) \subseteq ToSet(v)
    BY <2>1, <2>2
  <2>10. QED BY <2>3, <2>8, <2>9, Zenon DEF Joins
<1>3. ASSUME NEW n \in Nat, n \in I PROVE n + 1 \in I
  <2>1. SUFFICES ASSUME NEW us \in Seq(Seq(S)), Len(us) = n + 2, Blocks(us, S, N, L, F)
                 PROVE  Joins(FlattenSeq(us), us, S, N, L, F)
    BY <1>1
  <2>2. PICK vs, v : vs = SubSeq(us, 1, n + 1) /\ v = us[n + 2]
    OBVIOUS
  <2>3. /\ vs \in Seq(Seq(S)) /\ Len(vs) = n + 1 /\ v \in Seq(S) /\ us = Append(vs, v)
        /\ \A i \in 1 .. n + 1 : vs[i] = us[i]
    BY <2>1, <2>2
  <2>4. Chain(v, S, N, L) /\ v # << >> /\ v[1] \in F
    BY <2>1, <2>2 DEF Blocks
  <2>5. Blocks(vs, S, N, L, F)
    <3>1. ASSUME NEW i \in 1 .. Len(vs)
          PROVE  Chain(vs[i], S, N, L) /\ vs[i] # << >> /\ vs[i][1] \in F
      <4>1. i \in 1 .. Len(us) /\ vs[i] = us[i]
        BY <2>1, <2>3
      <4>2. QED BY <2>1, <4>1 DEF Blocks
    <3>2. QED BY <2>3, <3>1, Zenon DEF Blocks
  <2>6. PICK p : p = FlattenSeq(vs)
    OBVIOUS
  <2>7. Joins(p, vs, S, N, L, F)
    BY <1>1, <1>3, <2>3, <2>5, <2>6
  <2>8. FlattenSeq(us) = p \o v
    BY <2>3, <2>6, FlattenProperties
  <2>9. Chain(p, S, N, L) /\ p # << >> /\ p[1] \in F /\ \A k \in L : <<k, v[1]>> \in N
    BY <2>4, <2>7 DEF Joins
  <2>10. Starts(p \o v, p[1], S, N, L, ToSet(p) \cup ToSet(v))
    BY <2>4, <2>9, ChainJoin
  <2>11. /\ Chain(p \o v, S, N, L) /\ p \o v # << >> /\ (p \o v)[1] \in F
         /\ ToSet(p \o v) = ToSet(p) \cup ToSet(v)
    BY <2>9, <2>10 DEF Starts
  <2>12. ASSUME NEW i \in 1 .. Len(us) PROVE ToSet(us[i]) \subseteq ToSet(p \o v)
    <3>1. CASE i = n + 2
      BY <2>2, <2>11, <3>1
    <3>2. CASE i # n + 2
      <4>1. i \in 1 .. n + 1 /\ i \in 1 .. Len(vs) /\ us[i] = vs[i]
        BY <2>1, <2>3, <3>2
      <4>2. ToSet(vs[i]) \subseteq ToSet(p)
        BY <2>7, <4>1 DEF Joins
      <4>3. QED BY <2>11, <4>1, <4>2
    <3>3. QED BY <3>1, <3>2
  <2>13. QED BY <2>8, <2>11, <2>12, Zenon DEF Joins
<1>4. ss \in Seq(Seq(S)) /\ Len(ss) \in Nat /\ Len(ss) # 0
  BY DEF Blocks
<1>5. Len(ss) - 1 \in I
  <2>1. Nat \subseteq I
    BY <1>2, <1>3, SetInduction
  <2>2. QED BY <1>4, <2>1
<1>6. QED BY <1>1, <1>4, <1>5

\* The elements of a group, in their order.
LEMMA OrderOfElements ==
    /\ Cardinality(Worker) \in Nat /\ Cardinality(Worker) > 0
    /\ SetToSeq(Worker) \in [1 .. Cardinality(Worker) -> Worker]
    /\ \A v \in Worker : \E i \in 1 .. Cardinality(Worker) : SetToSeq(Worker)[i] = v
<1>1. PICK n : n = Cardinality(Worker)
  OBVIOUS
<1>2. n \in Nat /\ ExistsBijection(1 .. n, Worker) /\ n # 0
  BY <1>1, ThreadAssumption, FS_CardinalityType, FS_EmptySet
<1>3. \E f \in [1 .. n -> Worker] : IsInjective(f)
  BY <1>2 DEF ExistsBijection, Bijection, Injection
<1>4. PICK f : f = SetToSeq(Worker)
  OBVIOUS
<1>5. f \in [1 .. n -> Worker] /\ IsInjective(f)
  BY <1>1, <1>3, <1>4, Zenon DEF SetToSeq
<1>6. f \in Injection(1 .. n, Worker)
  BY <1>5 DEF Injection
<1>7. Cardinality(1 .. n) = n
  BY <1>2, FS_Interval
<1>8. f \in Surjection(1 .. n, Worker)
  BY <1>1, <1>6, <1>7, ThreadAssumption, FS_Injection
<1>9. \A v \in Worker : \E i \in 1 .. n : f[i] = v
  BY <1>8 DEF Surjection
<1>10. QED BY <1>1, <1>2, <1>4, <1>5, <1>9

LEMMA LastIn ==
    ASSUME NEW s, NEW S, NEW N, NEW K, NEW L, Chain(s, S, N, K), K \subseteq L
    PROVE  Chain(s, S, N, L)
<1>1. s # << >> => s[Len(s)] \in L
  BY DEF Chain
<1>2. QED BY <1>1, Zenon DEF Chain

LEMMA GroupNextIs ==
    ASSUME NEW a \in GroupStatement, NEW b \in GroupStatement
    PROVE  <<a, b>> \in GroupNext <=>
              \/ a[1] \in {"wait call", "wait executing"} /\ b[1] = "wait call"
              \/ a[1] = "delete" /\ b[1] = "clear" /\ a[2] = b[2]
              \/ a[1] = "clear" /\ b[1] = "acquire" /\ a[2] = b[2]
              \/ a[1] = "acquire" /\ b[1] = "delete"
              \/ a[1] = "forget" /\ b[1] = "stop"
              \/ a[1] = "stop" /\ b[1] = "wait end" /\ a[2] = b[2]
              \/ a[1] = "wait end" /\ b[1] = "forget" /\ a[2] = b[2]
<1>1. PICK S : S = GroupStatement
  OBVIOUS
<1>2. <<a, b>> \in S \X S /\ <<a, b>>[1] = a /\ <<a, b>>[2] = b
  BY <1>1
<1>3. PICK n \in S \X S : n = <<a, b>> /\ n[1] = a /\ n[2] = b
  BY <1>2
<1>4. QED BY <1>1, <1>3 DEF GroupNext

LEMMA SequenceIs ==
    ASSUME NEW T, NEW n \in Nat, NEW s \in [1 .. n -> T]
    PROVE  s \in Seq(T) /\ Len(s) = n /\ (n > 0 => s # << >>)
<1>1. s \in Seq(T) /\ Len(s) = n
  OBVIOUS
<1>2. s = << >> => Len(s) = 0
  OBVIOUS
<1>3. QED BY <1>1, <1>2

\* A loop over the elements, each with one statement or three.
LEMMA EachOne ==
    ASSUME NEW x \in {"wait call"}, NEW ss,
           ss = [i \in 1 .. Cardinality(Worker) |-> <<<<x, SetToSeq(Worker)[i]>>>>]
    PROVE  /\ GroupChain(FlattenSeq(ss)) /\ FlattenSeq(ss) # << >>
           /\ Place(FlattenSeq(ss)) = x
           /\ \A v \in Worker : <<x, v>> \in ToSet(FlattenSeq(ss))
<1>1. PICK n, f : n = Cardinality(Worker) /\ f = SetToSeq(Worker)
  OBVIOUS
<1>2. n \in Nat /\ n > 0 /\ f \in [1 .. n -> Worker]
      /\ \A v \in Worker : \E i \in 1 .. n : f[i] = v
  BY <1>1, OrderOfElements
<1>3. PICK S, N, F : S = GroupStatement /\ N = GroupNext /\ F = {x} \X Worker
  OBVIOUS
<1>4. ss = [i \in 1 .. n |-> <<<<x, f[i]>>>>]
  BY <1>1
<1>5. ASSUME NEW i \in 1 .. n
      PROVE  /\ <<<<x, f[i]>>>> \in Seq(S) /\ Chain(<<<<x, f[i]>>>>, S, N, F)
             /\ <<<<x, f[i]>>>> # << >> /\ <<<<x, f[i]>>>>[1] \in F
             /\ ToSet(<<<<x, f[i]>>>>) = {<<x, f[i]>>}
  <2>1. PICK a : a = <<x, f[i]>>
    OBVIOUS
  <2>2. a \in S /\ a \in F
    BY <1>2, <1>3, <2>1 DEF GroupStatement, GroupNames
  <2>3. Chain(<<a>>, S, N, F) /\ <<a>> # << >> /\ <<a>>[1] = a /\ ToSet(<<a>>) = {a}
    BY <2>2, ChainOne
  <2>4. <<a>> \in Seq(S)
    BY <2>2, OneElement
  <2>5. QED BY <2>1, <2>2, <2>3, <2>4
<1>6. ss \in Seq(Seq(S)) /\ Len(ss) = n /\ ss # << >>
  <2>1. ss \in [1 .. n -> Seq(S)]
    BY <1>4, <1>5
  <2>2. QED BY <1>2, <2>1, SequenceIs
<1>7. Blocks(ss, S, N, F, F)
  <2>1. ASSUME NEW i \in 1 .. Len(ss)
        PROVE  Chain(ss[i], S, N, F) /\ ss[i] # << >> /\ ss[i][1] \in F
    <3>1. i \in 1 .. n /\ ss[i] = <<<<x, f[i]>>>>
      BY <1>4, <1>6
    <3>2. QED BY <1>5, <3>1
  <2>2. QED BY <1>6, <2>1, Zenon DEF Blocks
<1>8. \A k \in F, a \in F : <<k, a>> \in N
  <2>1. SUFFICES ASSUME NEW k \in F, NEW a \in F PROVE <<k, a>> \in N
    OBVIOUS
  <2>2. k \in GroupStatement /\ a \in GroupStatement /\ k[1] = x /\ a[1] = x
    BY <1>3 DEF GroupStatement, GroupNames
  <2>3. QED BY <1>3, <2>2, GroupNextIs
<1>9. PICK s : s = FlattenSeq(ss)
  OBVIOUS
<1>10. Joins(s, ss, S, N, F, F)
  BY <1>6, <1>7, <1>8, <1>9, FlattenChain
<1>11. Chain(s, S, N, F) /\ s # << >> /\ s[1] \in F
       /\ \A i \in 1 .. Len(ss) : ToSet(ss[i]) \subseteq ToSet(s)
  BY <1>10 DEF Joins
<1>12. F \subseteq GroupLast
  BY <1>3 DEF GroupLast
<1>13. GroupChain(s)
  BY <1>3, <1>11, <1>12, LastIn DEF GroupChain
<1>14. Place(s) = x
  BY <1>3, <1>11 DEF Place
<1>15. ASSUME NEW v \in Worker PROVE <<x, v>> \in ToSet(s)
  <2>1. PICK i \in 1 .. n : f[i] = v
    BY <1>2
  <2>2. ss[i] = <<<<x, f[i]>>>> /\ ToSet(ss[i]) \subseteq ToSet(s)
    BY <1>4, <1>6, <1>11
  <2>3. ToSet(ss[i]) = {<<x, v>>}
    BY <1>5, <2>1, <2>2
  <2>4. QED BY <2>2, <2>3
<1>16. QED BY <1>9, <1>11, <1>13, <1>14, <1>15

LEMMA EachThree ==
    ASSUME NEW names \in {<<"stop", "wait end", "forget">>, <<"delete", "clear", "acquire">>},
           NEW ss, ss = [i \in 1 .. Cardinality(Worker) |-> About(SetToSeq(Worker)[i], names)]
    PROVE  /\ GroupChain(FlattenSeq(ss)) /\ FlattenSeq(ss) # << >>
           /\ Place(FlattenSeq(ss)) = names[1]
<1>17. /\ names = <<names[1], names[2], names[3]>>
       /\ \/ names[1] = "stop" /\ names[2] = "wait end" /\ names[3] = "forget"
          \/ names[1] = "delete" /\ names[2] = "clear" /\ names[3] = "acquire"
  <2>1. CASE names = <<"stop", "wait end", "forget">>
    BY <2>1
  <2>2. CASE names = <<"delete", "clear", "acquire">>
    BY <2>2
  <2>3. QED BY <2>1, <2>2
<1>16. PICK x, y, z : /\ names = <<x, y, z>> /\ names[1] = x
                      /\ \/ x = "stop" /\ y = "wait end" /\ z = "forget"
                         \/ x = "delete" /\ y = "clear" /\ z = "acquire"
  BY <1>17, Zenon
<1>1. PICK n, f : n = Cardinality(Worker) /\ f = SetToSeq(Worker)
  OBVIOUS
<1>2. n \in Nat /\ n > 0 /\ f \in [1 .. n -> Worker]
  BY <1>1, OrderOfElements
<1>3. PICK S, N, F, L : /\ S = GroupStatement /\ N = GroupNext
                        /\ F = {x} \X Worker /\ L = {z} \X Worker
  OBVIOUS
<1>4. ss = [i \in 1 .. n |-> About(f[i], names)]
  BY <1>1
<1>5. ASSUME NEW v \in Worker
      PROVE  /\ About(v, names) \in Seq(S) /\ Chain(About(v, names), S, N, L)
             /\ About(v, names) # << >> /\ About(v, names)[1] \in F
  <2>1. PICK a, b, c : a = <<x, v>> /\ b = <<y, v>> /\ c = <<z, v>>
    OBVIOUS
  <2>2. a \in S /\ b \in S /\ c \in S /\ a \in F /\ c \in L
    BY <1>3, <1>16, <2>1 DEF GroupStatement, GroupNames
  <2>3. <<a, b>> \in N /\ <<b, c>> \in N
    <3>1. /\ a[1] = x /\ b[1] = y /\ c[1] = z
          /\ a[2] = b[2] /\ b[2] = c[2]
      BY <2>1
    <3>2. QED BY <1>3, <1>16, <2>2, <3>1, GroupNextIs
  <2>4. /\ Chain(<<a, b, c>>, S, N, L) /\ <<a, b, c>> # << >> /\ <<a, b, c>>[1] = a
    BY <2>2, <2>3, ChainThree
  <2>5. About(v, names) = <<a, b, c>>
    BY <1>16, <2>1, AboutThree, Zenon
  <2>6. <<a, b, c>> \in Seq(S)
    BY <2>4, Zenon DEF Chain
  <2>7. QED BY <2>2, <2>4, <2>5, <2>6
<1>6. ss \in Seq(Seq(S)) /\ Len(ss) = n /\ ss # << >>
  <2>1. ss \in [1 .. n -> Seq(S)]
    BY <1>2, <1>4, <1>5
  <2>2. QED BY <1>2, <2>1, SequenceIs
<1>7. Blocks(ss, S, N, L, F)
  <2>1. ASSUME NEW i \in 1 .. Len(ss)
        PROVE  Chain(ss[i], S, N, L) /\ ss[i] # << >> /\ ss[i][1] \in F
    <3>1. i \in 1 .. n /\ ss[i] = About(f[i], names) /\ f[i] \in Worker
      BY <1>2, <1>4, <1>6
    <3>2. QED BY <1>5, <3>1
  <2>2. QED BY <1>6, <2>1, Zenon DEF Blocks
<1>8. \A k \in L, a \in F : <<k, a>> \in N
  <2>1. SUFFICES ASSUME NEW k \in L, NEW a \in F PROVE <<k, a>> \in N
    OBVIOUS
  <2>2. k \in GroupStatement /\ a \in GroupStatement /\ k[1] = z /\ a[1] = x
    BY <1>3, <1>16 DEF GroupStatement, GroupNames
  <2>3. QED BY <1>3, <1>16, <2>2, GroupNextIs
<1>9. PICK s : s = FlattenSeq(ss)
  OBVIOUS
<1>10. Joins(s, ss, S, N, L, F)
  BY <1>6, <1>7, <1>8, <1>9, FlattenChain
<1>11. Chain(s, S, N, L) /\ s # << >> /\ s[1] \in F
  BY <1>10 DEF Joins
<1>12. L \subseteq GroupLast
  BY <1>3, <1>16 DEF GroupLast
<1>13. GroupChain(s)
  BY <1>3, <1>11, <1>12, LastIn DEF GroupChain
<1>14. Place(s) = x
  BY <1>3, <1>11 DEF Place
<1>15. QED BY <1>9, <1>11, <1>13, <1>14, <1>16

\* What each operation on the group begins with.
LEMMA GroupOpens ==
    ASSUME group = Worker, NEW op \in DOMAIN GroupStatements
    PROVE  /\ GroupChain(GroupStatements[op]) /\ GroupStatements[op] # << >>
           /\ Place(GroupStatements[op]) \in {"delete", "trigger group", "wait call", "stop"}
           /\ Place(GroupStatements[op]) = "delete" <=> op = "compile"
           /\ Place(GroupStatements[op]) = "trigger group" <=> op = "execute"
           /\ Place(GroupStatements[op]) = "wait call" <=> op = "join"
           /\ op = "join" => /\ GroupStatements[op] = GroupJoin
                             /\ \A v \in Worker : <<"wait call", v>> \in ToSet(GroupJoin)
<1>1. op \in {"compile", "execute", "join", "destruct"}
  BY DEF GroupStatements
<1>3. CASE op = "compile"
  <2>1. GroupStatements[op] =
           FlattenSeq([i \in 1 .. Cardinality(Worker) |->
                          About(SetToSeq(Worker)[i], <<"delete", "clear", "acquire">>)])
    BY <1>3, Zenon DEF GroupStatements, ForEach, LinkTrigger
  <2>6. PICK names : names = <<"delete", "clear", "acquire">>
    OBVIOUS
  <2>7. names[1] = "delete"
    BY <2>6
  <2>2. PICK ss : ss = [i \in 1 .. Cardinality(Worker) |-> About(SetToSeq(Worker)[i], names)]
    OBVIOUS
  <2>3. GroupChain(FlattenSeq(ss)) /\ FlattenSeq(ss) # << >> /\ Place(FlattenSeq(ss)) = "delete"
    BY <2>2, <2>6, <2>7, EachThree
  <2>4. GroupStatements[op] = FlattenSeq(ss)
    BY <2>1, <2>2, <2>6
  <2>5. QED BY <1>3, <2>3, <2>4
<1>4. CASE op = "execute"
  <2>1. PICK a : a = <<"trigger group", m_execute_start>>
    OBVIOUS
  <2>2. GroupStatements[op] = <<a>>
    BY <1>4, <2>1 DEF GroupStatements
  <2>3. a \in GroupStatement /\ a \in GroupLast
    BY <2>1 DEF GroupStatement, GroupLast
  <2>4. GroupChain(<<a>>) /\ <<a>> # << >> /\ <<a>>[1] = a
    BY <2>3, ChainOne DEF GroupChain
  <2>5. Place(<<a>>) = "trigger group"
    BY <2>1, <2>4 DEF Place
  <2>6. QED BY <1>4, <2>2, <2>4, <2>5
<1>5. CASE op = "join"
  <2>1. GroupStatements[op] = GroupJoin
    BY <1>5 DEF GroupStatements
  <2>2. GroupJoin =
           FlattenSeq([i \in 1 .. Cardinality(Worker) |->
                          <<<<"wait call", SetToSeq(Worker)[i]>>>>])
    BY DEF GroupJoin, ForEach, join_call
  <2>3. QED BY <1>5, <2>1, <2>2, EachOne
<1>6. CASE op = "destruct"
  <2>1. GroupStatements[op] =
           FlattenSeq([i \in 1 .. Cardinality(Worker) |->
                          About(SetToSeq(Worker)[i], <<"stop", "wait end", "forget">>)])
    BY <1>6, Zenon DEF GroupStatements, ForEach, Destroy
  <2>6. PICK names : names = <<"stop", "wait end", "forget">>
    OBVIOUS
  <2>7. names[1] = "stop"
    BY <2>6
  <2>2. PICK ss : ss = [i \in 1 .. Cardinality(Worker) |-> About(SetToSeq(Worker)[i], names)]
    OBVIOUS
  <2>3. GroupChain(FlattenSeq(ss)) /\ FlattenSeq(ss) # << >> /\ Place(FlattenSeq(ss)) = "stop"
    BY <2>2, <2>6, <2>7, EachThree
  <2>4. GroupStatements[op] = FlattenSeq(ss)
    BY <2>1, <2>2, <2>6
  <2>5. QED BY <1>6, <2>3, <2>4
<1>7. QED BY <1>1, <1>3, <1>4, <1>5, <1>6

-----------------------------------------------------------------------------
(* The steps of the application's threads, with a group *)

LEMMA GroupStatementIs ==
    ASSUME NEW a \in GroupStatement
    PROVE  /\ a = <<a[1], a[2]>>
           /\ \/ a[1] \in GroupNames /\ a[2] \in Worker
              \/ a[1] = "trigger group" /\ a[2] = m_execute_start
           /\ a \in Name \X (Worker \cup {m_execute_start})
<1>1. GroupNames \subseteq Name /\ "trigger group" \in Name
  BY DEF GroupNames, Name
<1>2. CASE a \in GroupNames \X Worker
  <2>1. PICK y \in GroupNames, v \in Worker : a = <<y, v>>
    BY <1>2
  <2>2. y \in Name /\ v \in Worker \cup {m_execute_start}
    BY <1>1
  <2>3. QED BY <2>1, <2>2
<1>3. CASE a = <<"trigger group", m_execute_start>>
  BY <1>1, <1>3
<1>4. QED BY <1>2, <1>3 DEF GroupStatement

LEMMA GroupTyped ==
    ASSUME NEW s, GroupChain(s)
    PROVE  s \in Seq(Name \X (Worker \cup {m_execute_start}))
<1>1. PICK S, T : S = GroupStatement /\ T = Name \X (Worker \cup {m_execute_start})
  OBVIOUS
<1>2. s \in Seq(S)
  BY <1>1, Zenon DEF GroupChain, Chain
<1>3. \A a \in S : a \in T
  BY <1>1, GroupStatementIs, Zenon
<1>4. s \in [1 .. Len(s) -> S] /\ Len(s) \in Nat
  BY <1>2
<1>5. \A i \in 1 .. Len(s) : s[i] \in T
  BY <1>3, <1>4
<1>6. s \in [1 .. Len(s) -> T]
  BY <1>4, <1>5
<1>7. s \in Seq(T)
  BY <1>4, <1>6, SequenceIs
<1>8. QED BY <1>1, <1>7, Zenon

LEMMA GroupPlace ==
    ASSUME NEW s, GroupChain(s)
    PROVE  /\ s = << >> <=> Place(s) = "none"
           /\ s # << >> => s[1] \in GroupStatement /\ Place(s) = s[1][1]
<1>1. CASE s = << >>
  BY <1>1, Zenon DEF Place
<1>2. CASE s # << >>
  <2>1. s[1] \in GroupStatement
    BY <1>2, ChainTail DEF GroupChain
  <2>2. Place(s) = s[1][1]
    BY <1>2, Zenon DEF Place
  <2>3. s[1][1] # "none"
    BY <2>1, GroupStatementIs DEF GroupNames
  <2>4. QED BY <1>2, <2>1, <2>2, <2>3, Zenon
<1>3. QED BY <1>1, <1>2

LEMMA GroupAt ==
    ASSUME NEW c, GroupChain(todo[c]), NEW x, NEW v, At(c, x, v)
    PROVE  /\ todo[c] # << >> /\ todo[c][1] = <<x, v>> /\ Place(todo[c]) = x
           /\ <<x, v>> \in GroupStatement
           /\ \/ x \in GroupNames /\ v \in Worker
              \/ x = "trigger group" /\ v = m_execute_start
<1>1. todo[c] # << >> /\ Head(todo[c]) = <<x, v>>
  BY DEF At
<1>2. PICK s : s = todo[c]
  OBVIOUS
<1>3. Head(s) = s[1] /\ s[1] \in GroupStatement
  BY <1>1, <1>2, ChainTail DEF GroupChain
<1>4. PICK a \in GroupStatement : a = <<x, v>> /\ a = s[1]
  BY <1>1, <1>2, <1>3
<1>5. a[1] = x /\ a[2] = v
  BY <1>4
<1>6. Place(s) = x
  BY <1>1, <1>2, <1>4, <1>5 DEF Place
<1>7. QED BY <1>1, <1>2, <1>4, <1>5, <1>6, GroupStatementIs

LEMMA GroupMoved ==
    ASSUME TypeOK, NEW c \in App, NEW r, GroupChain(r), todo' = [todo EXCEPT ![c] = r]
    PROVE  Moved(c) /\ todo'[c] = r
<1>1. todo \in Todo /\ c \in Thread
  BY DEF TypeOK, Todo, Thread
<1>2. r \in Seq(Name \X (Worker \cup {m_execute_start}))
  BY GroupTyped
<1>3. QED BY <1>1, <1>2 DEF Moved, Todo

\* Nobody else does anything.
Alone(c) ==
    /\ \A v \in Worker : todo'[v] = todo[v]
    /\ \A d \in App : d # c => todo[d] = << >> /\ todo'[d] = << >> /\ Place(todo'[d]) = "none"

LEMMA GroupKeeps ==
    ASSUME GroupChains, NEW c \in App, Moved(c), GroupChain(todo'[c]),
           todo[c] # << >> \/ \A d \in App : todo[d] = << >>
    PROVE  GroupChains' /\ Alone(c)
<1>1. \A u \in Thread : u # c => todo'[u] = todo[u]
  BY DEF Moved
<1>2. \A v \in Worker : v # c /\ v \in Thread /\ todo'[v] = todo[v]
  BY <1>1, ThreadAssumption DEF Thread
<1>3. \A d \in App : d # c => todo[d] = << >>
  BY DEF GroupChains
<1>4. \A d \in App : d # c => todo'[d] = << >>
  BY <1>1, <1>3 DEF Thread
<1>5. Place(<< >>) = "none"
  BY Zenon DEF Place
<1>6. Alone(c)
  BY <1>2, <1>3, <1>4, <1>5, Zenon DEF Alone
<1>7. GroupChain(<< >>)
  <2>1. \A d \in App : d # c => GroupChain(<< >>)
    BY <1>3 DEF GroupChains
  <2>2. PICK S \in {GroupStatement} : TRUE
    OBVIOUS
  <2>3. << >> \in Seq(S) /\ Len(<< >>) = 0
    OBVIOUS
  <2>4. QED BY <2>2, <2>3 DEF GroupChain, Chain
<1>8. \A v \in Worker : WorkerChain(todo'[v], v)
  BY <1>2 DEF GroupChains
<1>9. \A d \in App : GroupChain(todo'[d])
  BY <1>4, <1>7
<1>10. \A a, d \in App : todo'[a] = << >> \/ d = a \/ todo'[d] = << >>
  BY <1>4
<1>11. QED BY <1>6, <1>8, <1>9, <1>10, Zenon DEF GroupChains

\* The thread c has executed the statement x about v.
Done(c, x, v) ==
    /\ Moved(c) /\ GroupChains' /\ Alone(c)
    /\ todo[c] # << >> /\ Place(todo[c]) = x /\ todo[c][1] = <<x, v>>
    /\ ToSet(todo[c]) = {<<x, v>>} \cup ToSet(todo'[c])
    /\ todo'[c] = << >> <=> Place(todo'[c]) = "none"
    /\ x \in {"wait call", "wait executing"} => Place(todo'[c]) \in {"none", "wait call"}
    /\ x = "delete" => Place(todo'[c]) = "clear" /\ todo'[c][1] = <<"clear", v>>
    /\ x = "clear" => Place(todo'[c]) = "acquire" /\ todo'[c][1] = <<"acquire", v>>
    /\ x = "acquire" => Place(todo'[c]) \in {"none", "delete"}
    /\ x = "trigger group" => Place(todo'[c]) = "none"
    /\ x = "forget" => Place(todo'[c]) \in {"none", "stop"}
    /\ x = "stop" => Place(todo'[c]) = "wait end"
    /\ x = "wait end" => Place(todo'[c]) = "forget" /\ todo'[c][1] = <<"forget", v>>

LEMMA GroupContinues ==
    ASSUME TypeOK, GroupChains, NEW c \in App, NEW x, NEW v, At(c, x, v), Continue(c)
    PROVE  Done(c, x, v)
<1>1. GroupChain(todo[c])
  BY DEF GroupChains
<1>2. PICK s, r, a : s = todo[c] /\ r = Tail(s) /\ a = <<x, v>>
  OBVIOUS
<1>3. /\ s # << >> /\ s[1] = a /\ Place(s) = x /\ a \in GroupStatement
  BY <1>1, <1>2, GroupAt
<1>4. /\ GroupChain(r) /\ ToSet(s) = {a} \cup ToSet(r)
      /\ r # << >> => <<a, r[1]>> \in GroupNext
      /\ r = << >> => a \in GroupLast
  <2>1. PICK S, N, L : S = GroupStatement /\ N = GroupNext /\ L = GroupLast
    OBVIOUS
  <2>2. Chain(s, S, N, L)
    BY <1>1, <1>2, <2>1, Zenon DEF GroupChain
  <2>3. /\ Chain(Tail(s), S, N, L)
        /\ ToSet(s) = {s[1]} \cup ToSet(Tail(s))
        /\ Tail(s) # << >> => <<s[1], Tail(s)[1]>> \in N
        /\ Tail(s) = << >> => s[1] \in L
    BY ONLY <2>2, <1>3, ChainTail
  <2>4. QED BY <1>2, <1>3, <2>1, <2>3, Zenon DEF GroupChain
<1>5. todo' = [todo EXCEPT ![c] = r]
  BY <1>2, Zenon DEF Continue, GoTo
<1>6. Moved(c) /\ todo'[c] = r
  BY <1>4, <1>5, GroupMoved
<1>7. GroupChains' /\ Alone(c)
  BY <1>2, <1>3, <1>4, <1>6, GroupKeeps
<1>8. /\ r = << >> <=> Place(r) = "none"
      /\ r # << >> => r[1] \in GroupStatement /\ Place(r) = r[1][1]
  BY <1>4, GroupPlace
<1>9. a[1] = x /\ a[2] = v
  BY <1>2
<1>10. r = << >> => x \notin {"stop", "wait end", "delete", "clear"}
  <2>1. SUFFICES ASSUME a \in GroupLast PROVE x \notin {"stop", "wait end", "delete", "clear"}
    BY <1>4
  <2>2. CASE a = <<"trigger group", m_execute_start>>
    BY <1>9, <2>2
  <2>3. CASE a \in {"wait call", "wait executing", "acquire", "forget"} \X Worker
    <3>1. a[1] \in {"wait call", "wait executing", "acquire", "forget"}
      BY <2>3
    <3>2. QED BY <1>9, <3>1
  <2>4. QED BY <2>1, <2>2, <2>3 DEF GroupLast
<1>11. ASSUME r # << >>
       PROVE  /\ x \in {"wait call", "wait executing"} => Place(r) = "wait call"
              /\ x = "delete" => Place(r) = "clear" /\ r[1] = <<"clear", v>>
              /\ x = "clear" => Place(r) = "acquire" /\ r[1] = <<"acquire", v>>
              /\ x = "acquire" => Place(r) = "delete"
              /\ x # "trigger group"
              /\ x = "forget" => Place(r) = "stop"
              /\ x = "stop" => Place(r) = "wait end"
              /\ x = "wait end" => Place(r) = "forget" /\ r[1] = <<"forget", v>>
  <2>1. PICK b \in GroupStatement : b = r[1]
    BY <1>8, <1>11
  <2>2. \/ a[1] \in {"wait call", "wait executing"} /\ b[1] = "wait call"
        \/ a[1] = "delete" /\ b[1] = "clear" /\ a[2] = b[2]
        \/ a[1] = "clear" /\ b[1] = "acquire" /\ a[2] = b[2]
        \/ a[1] = "acquire" /\ b[1] = "delete"
        \/ a[1] = "forget" /\ b[1] = "stop"
        \/ a[1] = "stop" /\ b[1] = "wait end" /\ a[2] = b[2]
        \/ a[1] = "wait end" /\ b[1] = "forget" /\ a[2] = b[2]
    BY <1>3, <1>4, <1>11, <2>1, GroupNextIs
  <2>3. b = <<b[1], b[2]>> /\ Place(r) = b[1]
    BY <1>8, <1>11, <2>1, GroupStatementIs
  <2>4. QED BY <1>9, <2>1, <2>2, <2>3
<1>12. QED BY <1>2, <1>3, <1>4, <1>6, <1>7, <1>8, <1>10, <1>11 DEF Done

LEMMA NothingIn == ToSet(<< >>) = {}
<1>1. PICK S \in {{}} : TRUE
  OBVIOUS
<1>2. PICK e \in Seq(S) : e = << >> /\ Len(e) = 0
  <2>1. << >> \in Seq(S) /\ Len(<< >>) = 0
    OBVIOUS
  <2>2. QED BY <2>1
<1>3. ToSet(e) = {}
  BY <1>2 DEF ToSet
<1>4. QED BY <1>2, <1>3, Zenon

\* A wait goes from one read to the other.
GroupPuts(s, t, x, y, v) ==
    /\ GroupChain(t) /\ Place(t) = y
    /\ ToSet(s) = {<<x, v>>} \cup ToSet(Tail(s)) /\ ToSet(t) = {<<y, v>>} \cup ToSet(Tail(s))

LEMMA GroupPut ==
    ASSUME NEW s, GroupChain(s), s # << >>, NEW v \in Worker, NEW x, NEW y,
           {x, y} \subseteq {"wait call", "wait executing"}, s[1] = <<x, v>>,
           NEW t, t = <<<<y, v>>>> \o Tail(s)
    PROVE  GroupPuts(s, t, x, y, v)
<1>1. PICK S, N, L : S = GroupStatement /\ N = GroupNext /\ L = GroupLast
  OBVIOUS
<1>2. PICK r, a, b : r = Tail(s) /\ a = <<x, v>> /\ b = <<y, v>>
  OBVIOUS
<1>3. a \in GroupStatement /\ b \in GroupStatement /\ b \in GroupLast
      /\ a[1] = x /\ a[2] = v /\ b[1] = y /\ b[2] = v
  BY <1>2 DEF GroupStatement, GroupNames, GroupLast
<1>4. Chain(s, S, N, L)
  BY <1>1, Zenon DEF GroupChain
<1>5. /\ Chain(r, S, N, L)
      /\ r # << >> => <<a, r[1]>> \in N
      /\ ToSet(s) = {a} \cup ToSet(r)
  <2>1. /\ Chain(Tail(s), S, N, L) /\ ToSet(s) = {s[1]} \cup ToSet(Tail(s))
        /\ Tail(s) # << >> => <<s[1], Tail(s)[1]>> \in N
    BY ONLY <1>4, s # << >>, ChainTail
  <2>2. QED BY <1>2, <2>1, Zenon
<1>6. r # << >> => <<b, r[1]>> \in N
  <2>1. SUFFICES ASSUME r # << >> PROVE <<b, r[1]>> \in N
    OBVIOUS
  <2>2. PICK e \in GroupStatement : e = r[1] /\ <<a, e>> \in GroupNext
    BY <1>1, <1>5, <2>1, ChainTail
  <2>3. e[1] = "wait call"
    <3>1. a[1] \notin {"delete", "clear", "acquire", "forget", "stop", "wait end"}
      BY <1>3
    <3>2. QED BY <1>3, <2>2, <3>1, GroupNextIs
  <2>4. <<b, e>> \in GroupNext
    <3>1. b[1] \in {"wait call", "wait executing"}
      BY <1>3
    <3>2. QED BY <1>3, <2>3, <3>1, GroupNextIs
  <2>5. QED BY <1>1, <2>2, <2>4, Zenon
<1>7. /\ Chain(<<b>> \o r, S, N, L) /\ <<b>> \o r # << >> /\ (<<b>> \o r)[1] = b
      /\ ToSet(<<b>> \o r) = {b} \cup ToSet(r)
  <2>1. b \in S /\ b \in L
    BY <1>1, <1>3
  <2>2. Chain(r, S, N, L)
    BY <1>5
  <2>3. CASE r # << >>
    <3>1. <<b, r[1]>> \in N
      BY <1>6, <2>3
    <3>2. Starts(r, r[1], S, N, L, ToSet(r))
      BY ONLY <2>2, <2>3 DEF Starts
    <3>3. Starts(<<b>> \o r, b, S, N, L, {b} \cup ToSet(r))
      BY ONLY <2>1, <3>1, <3>2, StartsBefore
    <3>4. QED BY ONLY <3>3 DEF Starts
  <2>4. CASE r = << >>
    <3>1. PICK e \in Seq(S) : e = <<b>>
      BY <2>1, OneElement
    <3>2. Chain(e, S, N, L) /\ e # << >> /\ e[1] = b /\ ToSet(e) = {b}
      BY <2>1, <3>1, ChainOne, Zenon
    <3>3. e \o r = e
      BY <2>4, <3>1, ConcatEmptySeq
    <3>4. ToSet(r) = {}
      BY <2>4, NothingIn, Zenon
    <3>5. {b} \cup ToSet(r) = {b}
      BY <3>4
    <3>6. QED BY <3>1, <3>2, <3>3, <3>5, Zenon
  <2>5. QED BY <2>3, <2>4
<1>8. Place(<<b>> \o r) = y
  BY <1>3, <1>7, Zenon DEF Place
<1>9. QED BY <1>1, <1>2, <1>5, <1>7, <1>8, Zenon DEF GroupChain, GroupPuts

\* What a wait of c for v does.  What c has yet to check it has still to check,
\* but for v when it does not execute.
GroupWaited(c, v) ==
    /\ Moved(c) /\ GroupChains' /\ Alone(c)
    /\ todo[c] # << >> /\ Waits(c)
    /\ todo'[c] = << >> <=> Place(todo'[c]) = "none"
    /\ \/ Goes(c, "wait call", "wait executing") /\ ~ Triggered(v)
       \/ Goes(c, "wait executing", "wait call") /\ m_executing[v]
       \/ /\ Place(todo[c]) = "wait executing" /\ ~ m_executing[v]
          /\ Place(todo'[c]) \in {"none", "wait call"}
    /\ \A u : WillCheck(c, u) =>
          \/ WillCheck(c, u)'
          \/ u = v /\ Place(todo[c]) = "wait executing" /\ ~ m_executing[v]

LEMMA GroupWaits ==
    ASSUME TypeOK, GroupChains, NEW c \in App, NEW v \in Worker, Wait(c, v)
    PROVE  GroupWaited(c, v)
<1>1. GroupChain(todo[c])
  BY DEF GroupChains
<1>2. ASSUME NEW x \in {"wait call", "wait executing"}, NEW y \in {"wait call", "wait executing"},
             At(c, x, v), GoTo(c, <<<<y, v>>>> \o Tail(todo[c]))
      PROVE  /\ Moved(c) /\ GroupChains' /\ Alone(c)
             /\ todo[c] # << >> /\ Waits(c)
             /\ todo'[c] = << >> <=> Place(todo'[c]) = "none"
             /\ Goes(c, x, y)
             /\ \A u : WillCheck(c, u) => WillCheck(c, u)'
  <2>1. todo[c] # << >> /\ todo[c][1] = <<x, v>> /\ Place(todo[c]) = x
    BY <1>1, <1>2, GroupAt, Zenon
  <2>2. PICK s, r : s = todo[c] /\ r = <<<<y, v>>>> \o Tail(s)
    OBVIOUS
  <2>3. /\ GroupChain(r) /\ Place(r) = y
        /\ ToSet(s) = {<<x, v>>} \cup ToSet(Tail(s)) /\ ToSet(r) = {<<y, v>>} \cup ToSet(Tail(s))
    <3>1. GroupChain(s) /\ s # << >> /\ s[1] = <<x, v>>
      BY <1>1, <2>1, <2>2
    <3>2. {x, y} \subseteq {"wait call", "wait executing"}
      OBVIOUS
    <3>3. GroupPuts(s, r, x, y, v)
      BY <2>2, <3>1, <3>2, GroupPut, Zenon
    <3>4. QED BY <3>3 DEF GroupPuts
  <2>4. todo' = [todo EXCEPT ![c] = r]
    BY <1>2, <2>2, Zenon DEF GoTo
  <2>5. Moved(c) /\ todo'[c] = r
    BY <2>3, <2>4, GroupMoved
  <2>6. GroupChains' /\ Alone(c)
    BY <2>1, <2>3, <2>5, GroupKeeps
  <2>7. todo'[c] = << >> <=> Place(todo'[c]) = "none"
    BY <2>3, <2>5, GroupPlace
  <2>8. ASSUME NEW u, WillCheck(c, u) PROVE WillCheck(c, u)'
    <3>1. \E z \in {"wait call", "wait executing"} : <<z, u>> \in ToSet(r)
      <4>1. PICK z \in {"wait call", "wait executing"} : <<z, u>> \in ToSet(s)
        BY <2>2, <2>8 DEF WillCheck
      <4>2. CASE <<z, u>> = <<x, v>>
        <5>1. <<y, u>> \in ToSet(r)
          BY <2>3, <4>2
        <5>2. QED BY <5>1, Zenon
      <4>3. CASE <<z, u>> # <<x, v>>
        BY <2>3, <4>1, <4>3
      <4>4. QED BY <4>2, <4>3
    <3>2. QED BY <2>5, <3>1 DEF WillCheck
  <2>9. QED BY <2>1, <2>3, <2>5, <2>6, <2>7, <2>8, Zenon DEF Goes, Waits
<1>3. CASE At(c, "wait call", v) /\ ~ Triggered(v)
           /\ GoTo(c, <<<<"wait executing", v>>>> \o Tail(todo[c]))
  <2>1. "wait call" \in {"wait call", "wait executing"}
        /\ "wait executing" \in {"wait call", "wait executing"}
    OBVIOUS
  <2>2. QED BY <1>2, <1>3, <2>1, Zenon DEF GroupWaited
<1>4. CASE At(c, "wait executing", v) /\ m_executing[v] /\ GoTo(c, join_call(v) \o Tail(todo[c]))
  <2>1. "wait call" \in {"wait call", "wait executing"}
        /\ "wait executing" \in {"wait call", "wait executing"}
    OBVIOUS
  <2>2. QED BY <1>2, <1>4, <2>1, Zenon DEF join_call, GroupWaited
<1>5. CASE At(c, "wait executing", v) /\ ~ m_executing[v] /\ Continue(c)
  <2>1. Done(c, "wait executing", v)
    BY <1>5, GroupContinues
  <2>2. /\ Place(todo[c]) = "wait executing" /\ Waits(c)
        /\ Place(todo'[c]) \in {"none", "wait call"}
    BY <2>1 DEF Done, Waits
  <2>3. PICK s, r : s = ToSet(todo[c]) /\ r = ToSet(todo'[c])
    OBVIOUS
  <2>4. s = {<<"wait executing", v>>} \cup r
    BY <2>1, <2>3 DEF Done
  <2>5. ASSUME NEW u, WillCheck(c, u), u # v PROVE WillCheck(c, u)'
    <3>1. <<"wait call", u>> \in s \/ <<"wait executing", u>> \in s
      BY <2>3, <2>5 DEF WillCheck
    <3>2. <<"wait call", u>> \in r \/ <<"wait executing", u>> \in r
      BY <2>4, <2>5, <3>1
    <3>3. QED BY <2>3, <3>2 DEF WillCheck
  <2>6. QED BY <1>5, <2>1, <2>2, <2>5, Zenon DEF Done, GroupWaited
<1>6. ~ At(c, "wait loop", v)
  <2>1. SUFFICES ASSUME At(c, "wait loop", v) PROVE FALSE
    OBVIOUS
  <2>2. "wait loop" \in GroupNames
    BY <1>1, <2>1, GroupAt
  <2>3. QED BY <2>2 DEF GroupNames
<1>7. QED BY <1>3, <1>4, <1>5, <1>6, Zenon DEF Wait

-----------------------------------------------------------------------------
(* The invariant of a group *)

\* What the statements that neither trigger nor wait are followed by.
QuietPlace == Links \cup {"none", "stop", "wait end", "forget"}

\* A step of the application that neither triggers nor waits.
LEMMA GroupQuiet ==
    ASSUME TypeOK, group = Worker, group' = Worker, Grouped, NEW c \in App, Alone(c),
           Place(todo'[c]) \in QuietPlace,
           UNCHANGED <<trigger, m_loop, m_executing, looped, overlapped, stopped, late, served>>,
           Ready => Ready'
    PROVE  CompiledFirst' /\ OneRuns' /\ GroupStopped'
<1>1. /\ \A v \in Worker : todo'[v] = todo[v]
      /\ \A d \in App : Place(todo'[d]) \in QuietPlace
  <2>1. "none" \in QuietPlace
    BY DEF QuietPlace
  <2>2. QED BY <2>1, Zenon DEF Alone
<1>2. \A d \in App : Place(todo'[d]) \notin {"trigger group", "wait call", "wait executing"}
  <2>1. ASSUME NEW x \in QuietPlace
        PROVE  x \notin {"trigger group", "wait call", "wait executing"}
    BY DEF QuietPlace, Links
  <2>2. QED BY <1>1, <2>1, Zenon
<1>4. CompiledFirst'
  <2>1. /\ ~ looped' /\ ~ overlapped'
        /\ trigger[m_execute_start]' => Ready'
    BY DEF Grouped, CompiledFirst
  <2>2. ASSUME NEW v \in Worker
        PROVE  /\ ~ m_loop[v]' /\ ~ trigger[v]'
               /\ Place(todo[v])' \notin {"wait call", "wait executing", "trigger"}
               /\ Place(todo[v])' \in Early \cup {"running", "leave"} => Ready'
               /\ m_executing[v]' <=> Place(todo[v])' \in {"disable", "run", "running", "leave"}
    BY <1>1 DEF Grouped, CompiledFirst
  <2>3. QED BY <1>2, <2>1, <2>2 DEF CompiledFirst
<1>5. OneRuns'
  <2>1. \A d \in App : ~ Waits(d)'
    BY <1>2 DEF Waits
  <2>2. \A v \in Worker : MayHaveRun(v) => MayHaveRun(v)'
    BY <1>1 DEF MayHaveRun
  <2>3. ~ trigger[m_execute_start] => \E v \in Worker : MayHaveRun(v)
    BY DEF Grouped, OneRuns
  <2>4. QED BY <2>1, <2>2, <2>3 DEF OneRuns
<1>6. GroupStopped'
  <2>1. EarlyOnes' = EarlyOnes
    BY <1>1 DEF EarlyOnes
  <2>2. QED BY <1>2, <2>1 DEF Grouped, GroupStopped
<1>7. QED BY <1>4, <1>5, <1>6

LEMMA GroupJoinSame ==
    ASSUME group = Worker, group' = Worker
    PROVE  GroupJoin' = GroupJoin /\ Place(GroupJoin) = "wait call"
<1>1. PICK f : f = [i \in 1 .. Cardinality(Worker) |-> <<<<"wait call", SetToSeq(Worker)[i]>>>>]
  OBVIOUS
<1>2. GroupJoin = FlattenSeq(f) /\ GroupJoin' = FlattenSeq(f)
  BY <1>1 DEF GroupJoin, ForEach, join_call
<1>3. "join" \in DOMAIN GroupStatements /\ GroupStatements["join"] = GroupJoin
  BY DEF GroupStatements
<1>4. Place(GroupJoin) = "wait call"
  BY <1>3, GroupOpens
<1>5. QED BY <1>2, <1>4

\* The triggers that the thread c does not link are there.
LEMMA OthersReadable ==
    ASSUME Grouped, NEW c \in App, todo[c] # << >>, NEW u \in Worker,
           ~ At(c, "clear", u), ~ At(c, "acquire", u)
    PROVE  Readable(u)
<1>1. ~ LinkUnderWay(u)
  <2>1. SUFFICES ASSUME NEW d \in App, At(d, "clear", u) \/ At(d, "acquire", u), d # c PROVE FALSE
    BY DEF LinkUnderWay
  <2>2. todo[d] # << >>
    BY <2>1 DEF At
  <2>3. QED BY <2>1, <2>2 DEF Grouped, GroupChains
<1>2. QED BY <1>1 DEF Grouped, Linked

\* All are when compile() has returned, and when nobody does anything.
LEMMA ReadyReadable ==
    ASSUME group = Worker, Ready
    PROVE  \A v \in Worker : Readable(v)
BY DEF Ready, Compiled, Readable

LEMMA AllReadable ==
    ASSUME Grouped, \A d \in App : todo[d] = << >>
    PROVE  \A v \in Worker : Readable(v)
<1>1. \A v : ~ LinkUnderWay(v)
  BY DEF LinkUnderWay, At
<1>2. QED BY <1>1 DEF Grouped, Linked

\* They stay so as long as nobody links.
LEMMA StaysLinked ==
    ASSUME ~ broken', m_call' = m_call, \A v \in Worker : Readable(v)
    PROVE  Linked'
BY DEF Linked, Readable

\* The steps of the elements change neither.
LEMMA StaysUnderWay ==
    ASSUME Grouped, ~ broken', m_call' = m_call, \A d \in App : todo'[d] = todo[d]
    PROVE  Linked' /\ (Ready /\ group' = group => Ready')
<1>1. ASSUME NEW v \in Worker PROVE Readable(v)' \/ LinkUnderWay(v)'
  <2>1. Readable(v)' <=> Readable(v)
    BY DEF Readable
  <2>2. LinkUnderWay(v) => LinkUnderWay(v)'
    BY DEF LinkUnderWay, At
  <2>3. QED BY <2>1, <2>2 DEF Grouped, Linked
<1>2. ASSUME Ready, group' = group PROVE Ready'
  BY <1>2 DEF Ready, Compiled
<1>3. QED BY <1>1, <1>2 DEF Linked

LEMMA GroupBegin ==
    ASSUME TypeOK, group = Worker, Grouped, ~ broken, NEW c \in App, NEW op \in DOMAIN GroupStatements,
           BeginGroup(c, op)
    PROVE  Grouped' /\ todo' \in Todo
<1>1. PICK r : r = GroupStatements[op]
  OBVIOUS
<1>2. /\ \A d \in App : todo[d] = << >>
      /\ op = "compile" <=> ~ Compiled
      /\ todo' = [todo EXCEPT ![c] = r]
      /\ UNCHANGED <<m_call, trigger, m_persist, m_loop, m_executing, m_function, group, looped,
                     overlapped, owed, broken, crossed, served>>
      /\ stopped' = (stopped /\ op # "execute")
      /\ late' = IF op = "execute" THEN 0 ELSE late
  BY <1>1, Zenon DEF BeginGroup, flags, Idle
<1>3. /\ GroupChain(r) /\ r # << >>
      /\ Place(r) \in {"delete", "trigger group", "wait call", "stop"}
      /\ Place(r) = "delete" <=> op = "compile"
      /\ Place(r) = "trigger group" <=> op = "execute"
      /\ Place(r) = "wait call" <=> op = "join"
      /\ op = "join" => r = GroupJoin /\ \A v \in Worker : <<"wait call", v>> \in ToSet(r)
  BY <1>1, GroupOpens
<1>4. Moved(c) /\ todo'[c] = r
  BY <1>2, <1>3, GroupMoved
<1>5. GroupChains' /\ Alone(c)
  BY <1>2, <1>3, <1>4, GroupKeeps DEF Grouped
<1>6. /\ \A v \in Worker : todo'[v] = todo[v]
      /\ \A d \in App : d # c => todo'[d] = << >> /\ Place(todo'[d]) = "none"
  BY <1>5, Zenon DEF Alone
<1>7. group' = Worker /\ Compiled' = Compiled
  BY <1>2 DEF Compiled
<1>13. Compiled => Ready'
  <2>1. ASSUME Compiled, NEW d \in App PROVE Place(todo'[d]) \notin Links
    <3>1. CASE d = c
      BY <1>2, <1>3, <1>4, <2>1, <3>1 DEF Links
    <3>2. CASE d # c
      BY <1>6, <3>2 DEF Links
    <3>3. QED BY <3>1, <3>2
  <2>2. QED BY <1>7, <2>1 DEF Ready
<1>8. CompiledFirst'
  <2>1. ASSUME NEW d \in App, Place(todo'[d]) \in {"trigger group", "wait call", "wait executing"}
        PROVE  Ready'
    <3>1. d = c /\ op # "compile"
      BY <1>3, <1>4, <1>6, <2>1
    <3>2. QED BY <1>2, <1>13, <3>1
  <2>2. Ready => Ready'
    BY <1>13 DEF Ready
  <2>3. QED BY <1>2, <1>6, <2>1, <2>2 DEF Grouped, CompiledFirst
<1>14. Linked'
  <2>1. \A v \in Worker : Readable(v)
    BY <1>2, AllReadable
  <2>2. QED BY <1>2, <2>1, StaysLinked
<1>9. FunctionsThere'
  <2>1. ASSUME NEW d \in App, NEW v \in Worker, todo'[d] # << >>, todo'[d][1] = <<"forget", v>>
        PROVE  FALSE
    <3>1. d = c
      BY <1>6, <2>1
    <3>2. Place(r) = "forget"
      <4>1. r[1] = <<"forget", v>> /\ r # << >>
        BY <1>4, <2>1, <3>1
      <4>2. r[1][1] = "forget"
        BY <4>1
      <4>3. QED BY <4>1, <4>2, Zenon DEF Place
    <3>3. QED BY <1>3, <3>2
  <2>2. QED BY <1>2, <1>6, <2>1 DEF Grouped, FunctionsThere
<1>10. OneRuns'
  <2>1. ASSUME NEW d \in App, Waits(d)' PROVE d = c /\ op = "join"
    BY <1>3, <1>4, <1>6, <2>1 DEF Waits
  <2>2. \A d \in App : Waits(d)' => todo'[d] = GroupJoin'
    BY <1>3, <1>4, <1>7, <2>1, GroupJoinSame
  <2>3. ASSUME NEW d \in App, Waits(d)', NEW v \in Worker PROVE WillCheck(d, v)'
    BY <1>3, <1>4, <2>1, <2>3 DEF WillCheck
  <2>4. \A v \in Worker : MayHaveRun(v) => MayHaveRun(v)'
    BY <1>2, <1>6 DEF MayHaveRun
  <2>5. ~ trigger[m_execute_start] => \E v \in Worker : MayHaveRun(v)
    BY DEF Grouped, OneRuns
  <2>6. trigger' = trigger
    BY <1>2
  <2>7. QED BY <2>2, <2>3, <2>4, <2>5, <2>6, Zenon DEF OneRuns
<1>11. GroupStopped'
  <2>1. EarlyOnes' = EarlyOnes
    BY <1>6 DEF EarlyOnes
  <2>2. CASE op = "execute"
    BY <1>2, <2>2 DEF GroupStopped
  <2>3. CASE op # "execute"
    <3>1. stopped' = stopped /\ late' = late /\ trigger' = trigger
      BY <1>2, <2>3 DEF TypeOK
    <3>2. \A d \in App : Place(todo'[d]) # "trigger group"
      BY <1>3, <1>4, <1>6, <2>3
    <3>3. QED BY <2>1, <3>1, <3>2 DEF Grouped, GroupStopped
  <2>4. QED BY <2>2, <2>3
<1>12. QED BY <1>4, <1>5, <1>8, <1>9, <1>10, <1>11, <1>14, Zenon DEF Moved, Grouped

\* A wait of a join has seen the trigger cleared, and who had run is either seen
\* to have ended or has still to be looked at.
GroupSeen(c) ==
    /\ Compiled /\ ~ trigger[m_execute_start]
    /\ \E u \in Worker : MayHaveRun(u) /\ (HasRun(u) \/ WillCheck(c, u)')

LEMMA GroupSees ==
    ASSUME group = Worker, Grouped, NEW c \in App, NEW v \in Worker, Wait(c, v),
           GroupWaited(c, v)
    PROVE  GroupSeen(c)
<1>1. group' = Worker
  BY Zenon DEF Wait
<1>2. /\ Waits(c)
      /\ Place(todo[c]) = "wait call" => ~ Triggered(v)
      /\ Place(todo[c]) \in {"wait call", "wait executing"}
      /\ \A u : WillCheck(c, u) =>
            \/ WillCheck(c, u)'
            \/ u = v /\ Place(todo[c]) = "wait executing" /\ ~ m_executing[v]
  BY DEF GroupWaited, Goes, Waits
<1>3. Compiled
  BY <1>2 DEF Grouped, CompiledFirst, Ready
<1>4. ~ trigger[m_execute_start]
  <2>1. CASE Place(todo[c]) = "wait call"
    BY <1>2, <1>3, <2>1 DEF Compiled, Triggered
  <2>2. CASE Place(todo[c]) = "wait executing"
    <3>1. todo[c] # GroupJoin
      BY <1>1, <2>2, GroupJoinSame
    <3>2. QED BY <1>2, <3>1 DEF Grouped, OneRuns
  <2>3. QED BY <1>2, <2>1, <2>2
<1>5. PICK u \in Worker : MayHaveRun(u) /\ (HasRun(u) \/ WillCheck(c, u))
  BY <1>2, <1>4 DEF Grouped, OneRuns
<1>6. HasRun(u) \/ WillCheck(c, u)'
  <2>1. SUFFICES ASSUME WillCheck(c, u), ~ WillCheck(c, u)' PROVE HasRun(u)
    BY <1>5
  <2>2. ~ m_executing[u]
    BY <1>2, <2>1
  <2>3. Place(todo[u]) \notin {"disable", "run", "running", "leave"}
    BY <2>2 DEF Grouped, CompiledFirst
  <2>4. u \in served /\ Place(todo[u]) \notin Early
    BY <1>5, <2>3 DEF MayHaveRun
  <2>5. QED BY <2>3, <2>4 DEF HasRun
<1>7. QED BY <1>3, <1>4, <1>5, <1>6, Zenon DEF GroupSeen

\* When it returns, one has run and ended.
LEMMA GroupReturns ==
    ASSUME NEW c, GroupSeen(c), todo'[c] = << >>
    PROVE  \E u \in Worker : HasRun(u)
<1>1. ToSet(todo'[c]) = {}
  BY NothingIn, Zenon
<1>2. \A u : ~ WillCheck(c, u)'
  BY <1>1 DEF WillCheck
<1>3. QED BY <1>2 DEF GroupSeen

LEMMA GroupWait ==
    ASSUME TypeOK, group = Worker, Grouped, ~ broken, NEW c \in App, NEW v \in Worker,
           Wait(c, v)
    PROVE  Grouped' /\ todo' \in Todo
<1>1. GroupWaited(c, v)
  BY GroupWaits DEF Grouped
<1>2. /\ Moved(c) /\ GroupChains' /\ todo[c] # << >> /\ Waits(c)
      /\ todo'[c] = << >> <=> Place(todo'[c]) = "none"
      /\ Place(todo[c]) = "wait call" => ~ Triggered(v)
      /\ Place(todo[c]) \in {"wait call", "wait executing"}
      /\ Place(todo'[c]) \in {"none", "wait call", "wait executing"}
  BY <1>1 DEF GroupWaited, Goes, Waits
<1>3. /\ \A u \in Worker : todo'[u] = todo[u]
      /\ \A d \in App : d # c => todo'[d] = << >> /\ Place(todo'[d]) = "none"
  BY <1>1, Zenon DEF GroupWaited, Alone
<1>4. /\ UNCHANGED <<m_call, trigger, m_persist, m_loop, m_executing, m_function, group, begun,
                     joined, looped, overlapped, owed, broken, crossed, late, served>>
      /\ stopped' = (stopped \/ /\ c \in App /\ todo'[c] = << >> /\ ~ m_loop[v]
                                /\ ~ \E d \in App : BoundToTrigger(d))
  BY Zenon DEF Wait, flags
<1>5. group' = Worker /\ Ready /\ Ready'
  <2>1. Ready
    BY <1>2 DEF Grouped, CompiledFirst
  <2>2. Compiled'
    BY <1>4, <2>1 DEF Ready, Compiled
  <2>3. ASSUME NEW d \in App PROVE Place(todo'[d]) \notin Links
    <3>1. CASE d = c
      BY <1>2, <3>1 DEF Links
    <3>2. CASE d # c
      BY <1>3, <3>2 DEF Links
    <3>3. QED BY <3>1, <3>2
  <2>4. QED BY <1>4, <2>1, <2>2, <2>3 DEF Ready
<1>14. Linked'
  BY <1>4, <1>5, ReadyReadable, StaysLinked
<1>6. CompiledFirst'
  <2>1. /\ ~ looped' /\ ~ overlapped'
    BY <1>4 DEF Grouped, CompiledFirst
  <2>2. ASSUME NEW u \in Worker
        PROVE  /\ ~ m_loop[u]' /\ ~ trigger[u]'
               /\ Place(todo[u])' \notin {"wait call", "wait executing", "trigger"}
               /\ m_executing[u]' <=> Place(todo[u])' \in {"disable", "run", "running", "leave"}
    BY <1>3, <1>4 DEF Grouped, CompiledFirst
  <2>3. QED BY <1>5, <2>1, <2>2, Zenon DEF CompiledFirst
<1>7. FunctionsThere'
  <2>1. ASSUME NEW d \in App, NEW u \in Worker, todo'[d] # << >>, todo'[d][1] = <<"forget", u>>
        PROVE  FALSE
    <3>1. d = c
      BY <1>3, <2>1
    <3>2. todo'[c][1][1] = "forget"
      BY <2>1, <3>1
    <3>3. Place(todo'[c]) = "forget"
      BY <2>1, <3>1, <3>2, Zenon DEF Place
    <3>4. QED BY <1>2, <3>3
  <2>2. QED BY <1>3, <1>4, <2>1 DEF Grouped, FunctionsThere
<1>8. GroupSeen(c)
  BY <1>1, GroupSees
<1>9. PICK u \in Worker : /\ MayHaveRun(u) /\ ~ trigger[m_execute_start]
                          /\ HasRun(u) \/ WillCheck(c, u)'
  BY <1>8 DEF GroupSeen
<1>10. MayHaveRun(u)' /\ (HasRun(u)' <=> HasRun(u))
  BY <1>3, <1>4, <1>9 DEF MayHaveRun, HasRun
<1>11. OneRuns'
  <2>1. ASSUME NEW d \in App, Waits(d)' PROVE d = c
    BY <1>3, <2>1 DEF Waits
  <2>2. ~ trigger[m_execute_start]'
    BY <1>4, <1>9
  <2>3. QED BY <1>9, <1>10, <2>1, <2>2, Zenon DEF OneRuns
<1>12. GroupStopped'
  <2>1. EarlyOnes' = EarlyOnes
    BY <1>3 DEF EarlyOnes
  <2>2. /\ ~ trigger[m_execute_start]' /\ \A d \in App : Place(todo'[d]) # "trigger group"
        /\ late' = late
    BY <1>2, <1>3, <1>4, <1>9
  <2>3. CASE stopped
    <3>1. stopped'
      BY <1>4, <2>3
    <3>2. late + Cardinality(EarlyOnes) < Cardinality(Worker)
      BY <2>3 DEF Grouped, GroupStopped
    <3>3. QED BY <2>1, <2>2, <3>1, <3>2 DEF GroupStopped
  <2>4. CASE ~ stopped /\ todo'[c] = << >>
    <3>1. late = 0
      BY <2>4 DEF Grouped, GroupStopped
    <3>2. PICK y \in Worker : HasRun(y)
      BY <1>8, <2>4, GroupReturns
    <3>3. EarlyOnes \subseteq Worker /\ y \notin EarlyOnes
      BY <3>2 DEF HasRun, EarlyOnes
    <3>4. Cardinality(EarlyOnes) < Cardinality(Worker) /\ Cardinality(EarlyOnes) \in Nat
      <4>1. /\ IsFiniteSet(EarlyOnes) /\ Cardinality(EarlyOnes) <= Cardinality(Worker)
            /\ Cardinality(EarlyOnes) = Cardinality(Worker) => EarlyOnes = Worker
        BY <3>3, ThreadAssumption, FS_Subset
      <4>2. Cardinality(EarlyOnes) \in Nat /\ Cardinality(Worker) \in Nat
        BY <4>1, ThreadAssumption, FS_CardinalityType
      <4>3. QED BY <3>3, <4>1, <4>2
    <3>5. late + Cardinality(EarlyOnes) < Cardinality(Worker)
      <4>1. PICK n, m : n = Cardinality(EarlyOnes) /\ m = Cardinality(Worker)
        OBVIOUS
      <4>2. n \in Nat /\ n < m /\ 0 + n = n
        BY <3>4, <4>1
      <4>3. QED BY <3>1, <4>1, <4>2, Zenon
    <3>6. QED BY <2>1, <2>2, <3>1, <3>5 DEF GroupStopped
  <2>5. CASE ~ stopped /\ todo'[c] # << >>
    <3>1. ~ stopped' /\ late = 0
      BY <1>4, <2>5 DEF Grouped, GroupStopped
    <3>2. QED BY <2>2, <3>1 DEF GroupStopped
  <2>6. QED BY <2>3, <2>4, <2>5
<1>13. QED BY <1>2, <1>6, <1>7, <1>11, <1>12, <1>14, Zenon DEF Moved, Grouped

\* link() takes away the trigger of the worker it links, and gives it another one.
LEMMA GroupLinks ==
    ASSUME TypeOK, group = Worker, Grouped, ~ broken, NEW c \in App, NEW v \in Worker,
           Link(c, v), NEW x, Done(c, x, v)
    PROVE  Linked'
<1>1. /\ todo[c] # << >> /\ todo[c][1] = <<x, v>> /\ Place(todo[c]) = x
      /\ x = "delete" => Place(todo'[c]) = "clear" /\ todo'[c][1] = <<"clear", v>>
      /\ x = "clear" => Place(todo'[c]) = "acquire" /\ todo'[c][1] = <<"acquire", v>>
      /\ todo'[c] = << >> <=> Place(todo'[c]) = "none"
      /\ \A u \in Worker : todo'[u] = todo[u]
  BY Zenon DEF Done, Alone
<1>2. GroupChain(todo[c]) /\ GroupChain(todo'[c])
  BY DEF Done, Grouped, GroupChains
<1>3. \A y, u : At(c, y, u) => y = x /\ u = v
  <2>1. SUFFICES ASSUME NEW y, NEW u, At(c, y, u) PROVE y = x /\ u = v
    OBVIOUS
  <2>2. todo[c][1] = <<y, u>>
    BY <1>2, <2>1, GroupAt
  <2>3. QED BY <1>1, <2>2
<1>4. ASSUME NEW u \in Worker, u # v PROVE Readable(u)'
  <2>1. Readable(u)
    BY <1>1, <1>3, <1>4, OthersReadable
  <2>2. m_call'[u] = m_call[u]
    BY <1>4, LinkIs DEF TypeOK
  <2>3. QED BY <2>1, <2>2 DEF Readable
<1>5. ASSUME x \in {"delete", "clear"} PROVE LinkUnderWay(v)'
  <2>1. PICK s : s = todo'[c]
    OBVIOUS
  <2>2. s # << >> /\ Head(s) = s[1]
    BY <1>1, <1>2, <1>5, <2>1, ChainTail DEF GroupChain
  <2>3. s[1] = <<"clear", v>> \/ s[1] = <<"acquire", v>>
    BY <1>1, <1>5, <2>1
  <2>4. QED BY <2>1, <2>2, <2>3 DEF LinkUnderWay, At
<1>6. Readable(v)' \/ LinkUnderWay(v)'
  <2>1. CASE At(c, "delete", v) \/ At(c, "clear", v)
    BY <1>3, <1>5, <2>1
  <2>2. CASE m_call' = [m_call EXCEPT ![v] = m_execute_start]
    BY <2>2 DEF TypeOK, Readable
  <2>3. QED BY <2>1, <2>2, LinkIs
<1>7. ASSUME broken' PROVE PolledWhileLinked(v)'
  <2>1. At(c, "delete", v) /\ \E u \in Thread : Reads(u, v)
    BY <1>7, LinkIs, Zenon
  <2>2. PICK u \in Thread : Reads(u, v)
    BY <2>1
  <2>3. x = "delete"
    BY <1>3, <2>1
  <2>4. u \notin App
    <3>1. ASSUME u \in App PROVE FALSE
      <4>1. todo[u] # << >>
        BY <2>2 DEF Reads, At
      <4>2. u = c
        BY <1>1, <3>1, <4>1 DEF Grouped, GroupChains
      <4>3. x \in {"wait call", "trigger", "poll", "disable"}
        BY <1>3, <2>2, <4>2 DEF Reads
      <4>4. QED BY <2>3, <4>3
    <3>2. QED BY <3>1
  <2>5. u \in Worker /\ WorkerChain(todo[u], u)
    BY <2>4 DEF Thread, Grouped, GroupChains
  <2>6. PICK y \in {"wait call", "trigger", "poll", "disable"} : At(u, y, v)
    BY <2>2 DEF Reads
  <2>7. v = u /\ Place(todo[u]) = y
    BY <2>5, <2>6, WorkerAt, Zenon
  <2>8. y = "poll"
    <3>1. y \notin {"wait call", "trigger"}
      BY <2>5, <2>7 DEF Grouped, CompiledFirst
    <3>2. y # "disable"
      <4>1. ASSUME y = "disable" PROVE FALSE
        <5>1. Place(todo[u]) \in Early
          BY <2>7, <4>1 DEF Early
        <5>2. Ready
          BY <2>5, <5>1 DEF Grouped, CompiledFirst
        <5>3. QED BY <1>1, <2>3, <5>2 DEF Ready, Links
      <4>2. QED BY <4>1
    <3>3. QED BY <3>1, <3>2
  <2>9. At(v, "poll", v)'
    BY <1>1, <2>6, <2>7, <2>8 DEF At
  <2>10. QED BY <1>5, <2>3, <2>9 DEF PolledWhileLinked
<1>8. QED BY <1>4, <1>6, <1>7, Zenon DEF Linked

\* Nobody but a worker that polls reads a trigger that is gone.
LEMMA GroupMisreads ==
    ASSUME TypeOK, group = Worker, Grouped, NEW t \in Thread, NEW v \in Worker, Misread(t, v)
    PROVE  Grouped' /\ todo' \in Todo
<1>1. /\ UNCHANGED <<m_call, trigger, m_persist, m_loop, m_executing, m_function, todo, group,
                     begun, joined, looped, overlapped, owed, crossed, stopped, late, served>>
      /\ broken' = TRUE /\ ~ Readable(v) /\ Reads(t, v)
  BY Zenon DEF Misread, flags
<1>2. LinkUnderWay(v)
  BY <1>1 DEF Grouped, Linked
<1>3. PICK c \in App, z \in {"clear", "acquire"} : At(c, z, v)
  BY <1>2 DEF LinkUnderWay
<1>4. Place(todo[c]) = z /\ todo[c] # << >> /\ todo[c][1] = <<z, v>> /\ GroupChain(todo[c])
  BY <1>3, GroupAt DEF Grouped, GroupChains
<1>5. PICK y \in {"wait call", "trigger", "poll", "disable"} : At(t, y, v)
  BY <1>1 DEF Reads
<1>6. t \notin App
  <2>1. ASSUME t \in App PROVE FALSE
    <3>1. todo[t] # << >>
      BY <1>5 DEF At
    <3>2. t = c
      BY <1>4, <2>1, <3>1 DEF Grouped, GroupChains
    <3>3. Place(todo[t]) = y
      BY <1>4, <1>5, <3>2, GroupAt
    <3>4. QED BY <1>4, <3>2, <3>3
  <2>2. QED BY <2>1
<1>7. t \in Worker /\ WorkerChain(todo[t], t)
  BY <1>6 DEF Thread, Grouped, GroupChains
<1>8. v = t /\ Place(todo[t]) = y
  BY <1>5, <1>7, WorkerAt, Zenon
<1>9. y = "poll"
  <2>1. y \notin {"wait call", "trigger"}
    BY <1>7, <1>8 DEF Grouped, CompiledFirst
  <2>2. ASSUME y = "disable" PROVE FALSE
    <3>1. Ready
      BY <1>7, <1>8, <2>2 DEF Grouped, CompiledFirst, Early
    <3>2. QED BY <1>4, <3>1 DEF Ready, Links
  <2>3. QED BY <2>1, <2>2
<1>10. PolledWhileLinked(v)
  BY <1>2, <1>5, <1>8, <1>9 DEF PolledWhileLinked
<1>11. GroupChains' /\ CompiledFirst' /\ FunctionsThere'
  BY <1>1 DEF Grouped, GroupChains, CompiledFirst, Ready, Compiled, FunctionsThere
<1>12. OneRuns'
  <2>1. GroupJoin' = GroupJoin
    BY <1>1, GroupJoinSame
  <2>2. QED BY <1>1, <2>1 DEF Grouped, OneRuns, Waits, MayHaveRun, HasRun, WillCheck
<1>13. GroupStopped'
  BY <1>1 DEF Grouped, GroupStopped, EarlyOnes
<1>14. Linked'
  BY <1>1, <1>10 DEF Grouped, Linked, PolledWhileLinked, LinkUnderWay, At, Readable
<1>15. todo' \in Todo
  BY <1>1, TypeParts
<1>16. QED BY <1>11, <1>12, <1>13, <1>14, <1>15 DEF Grouped

\* The other statements of the application.
LEMMA GroupSets ==
    ASSUME TypeOK, group = Worker, Grouped, ~ broken, NEW c \in App, NEW v \in Worker,
           Link(c, v) \/ SetFlag(c, v) \/ SetFunction(c, v) \/ WaitEnd(c, v)
    PROVE  Grouped' /\ todo' \in Todo
<1>1. GroupChains /\ GroupChain(todo[c])
  BY DEF Grouped, GroupChains
<1>2. ASSUME NEW x \in {"set loop", "clear loop", "assign"} PROVE ~ At(c, x, v)
  <2>1. SUFFICES ASSUME At(c, x, v) PROVE FALSE
    OBVIOUS
  <2>2. x \in GroupNames \/ x = "trigger group"
    BY <1>1, <2>1, GroupAt, Zenon
  <2>3. QED BY <2>2 DEF GroupNames
<1>3. ASSUME NEW x \in Links \cup {"stop", "wait end", "forget"}, At(c, x, v), Continue(c),
             UNCHANGED <<trigger, m_loop, m_executing, group, looped, overlapped, stopped, late,
                         served>>,
             x \notin Links => m_call' = m_call,
             Done(c, x, v) => Linked',
             \A u \in Worker : m_function'[u] = m_function[u] \/ (u = v /\ todo[v] = << >>),
             x = "wait end" => todo[v] = << >>
      PROVE  Grouped' /\ todo' \in Todo
  <2>1. Done(c, x, v)
    BY <1>1, <1>3, GroupContinues
  <2>2. /\ Moved(c) /\ GroupChains' /\ Alone(c)
        /\ Place(todo'[c]) \in QuietPlace
        /\ x \notin Links => Place(todo'[c]) \notin Links
        /\ Place(todo[c]) = x
        /\ Place(todo'[c]) = "forget" => todo'[c][1] = <<"forget", v>> /\ todo[v] = << >>
    BY <1>3, <2>1 DEF Done, QuietPlace, Links
  <2>3. group' = Worker
    BY <1>3
  <2>8. ASSUME Ready PROVE Ready'
    <3>1. x \notin Links /\ m_call' = m_call
      BY <1>3, <2>2, <2>8 DEF Ready
    <3>2. \A d \in App : Place(todo'[d]) \notin Links
      BY <2>2, <3>1 DEF Alone, Links
    <3>3. QED BY <1>3, <2>8, <3>1, <3>2 DEF Ready, Compiled
  <2>4. CompiledFirst' /\ OneRuns' /\ GroupStopped'
    BY <1>3, <2>2, <2>3, <2>8, GroupQuiet
  <2>5. /\ \A u \in Worker : todo'[u] = todo[u]
        /\ \A d \in App : d # c => todo'[d] = << >>
    BY <2>2, Zenon DEF Alone
  <2>6. FunctionsThere'
    <3>1. ASSUME NEW d \in App, NEW u \in Worker, todo'[d] # << >>, todo'[d][1] = <<"forget", u>>
          PROVE  todo'[u] = << >>
      <4>1. d = c
        BY <2>5, <3>1
      <4>2. todo'[c][1] = <<"forget", u>> /\ todo'[c] # << >>
        BY <3>1, <4>1, Zenon
      <4>3. Place(todo'[c]) = "forget"
        <5>1. PICK a : a = todo'[c][1]
          OBVIOUS
        <5>2. a = <<"forget", u>>
          BY <4>2, <5>1
        <5>3. a[1] = "forget"
          BY <5>2
        <5>4. QED BY <4>2, <5>1, <5>3, Zenon DEF Place
      <4>4. <<"forget", u>> = <<"forget", v>> /\ todo[v] = << >>
        BY <2>2, <4>2, <4>3
      <4>5. QED BY <2>5, <4>4
    <3>2. ASSUME NEW u \in Worker PROVE m_function'[u] \/ todo'[u] = << >>
      BY <1>3, <2>5 DEF Grouped, FunctionsThere
    <3>3. QED BY <3>1, <3>2 DEF FunctionsThere
  <2>7. QED BY <1>3, <2>1, <2>2, <2>4, <2>6, Zenon DEF Moved, Grouped
<1>9. ASSUME NEW x \in {"stop", "wait end", "forget"}, At(c, x, v), m_call' = m_call,
             broken' = broken
      PROVE  Linked'
  <2>1. ASSUME NEW u \in Worker PROVE Readable(u)
    <3>1. ~ At(c, "clear", u) /\ ~ At(c, "acquire", u) /\ todo[c] # << >>
      <4>1. x # "clear" /\ x # "acquire"
        OBVIOUS
      <4>2. <<x, v>> # <<"clear", u>> /\ <<x, v>> # <<"acquire", u>>
        BY <4>1
      <4>3. QED BY <1>9, <4>2, Zenon DEF At
    <3>2. QED BY <3>1, OthersReadable
  <2>2. QED BY <1>9, <2>1, StaysLinked
<1>4. CASE Link(c, v)
  <2>1. PICK x \in Links :
           /\ At(c, x, v) /\ Continue(c)
           /\ UNCHANGED <<trigger, m_loop, m_executing, m_function, group, looped, overlapped,
                          stopped, late, served>>
    BY <1>4, LinkIs, Zenon DEF Links
  <2>2. Done(c, x, v) => Linked'
    BY <1>4, <2>1, GroupLinks
  <2>3. x \in Links \cup {"stop", "wait end", "forget"} /\ x # "wait end"
    BY DEF Links
  <2>4. \A u \in Worker : m_function'[u] = m_function[u]
    BY <2>1
  <2>5. QED BY <1>3, <2>1, <2>2, <2>3, <2>4, Zenon
<1>5. CASE SetFlag(c, v)
  <2>1. /\ At(c, "stop", v) /\ Continue(c)
        /\ UNCHANGED <<m_call, trigger, m_loop, m_executing, m_function, group, looped, overlapped,
                       broken, stopped, late, served>>
    BY <1>2, <1>5, Zenon DEF SetFlag, history
  <2>2. Linked'
    BY <1>9, <2>1
  <2>3. "stop" \in Links \cup {"stop", "wait end", "forget"} /\ "stop" # "wait end"
    OBVIOUS
  <2>4. m_function' = m_function /\ m_call' = m_call
    BY <2>1
  <2>5. QED BY <1>3, <2>1, <2>2, <2>3, <2>4, Zenon
<1>6. CASE WaitEnd(c, v)
  <2>1. /\ At(c, "wait end", v) /\ Continue(c) /\ todo[v] = << >>
        /\ UNCHANGED <<m_call, trigger, m_loop, m_executing, m_function, group, looped, overlapped,
                       broken, stopped, late, served>>
    BY <1>6, Zenon DEF WaitEnd, flags, history
  <2>2. Linked'
    BY <1>9, <2>1
  <2>3. "wait end" \in Links \cup {"stop", "wait end", "forget"}
    OBVIOUS
  <2>4. m_function' = m_function /\ m_call' = m_call
    BY <2>1
  <2>5. QED BY <1>3, <2>1, <2>2, <2>3, <2>4, Zenon
<1>7. CASE SetFunction(c, v)
  <2>1. /\ At(c, "forget", v) /\ Continue(c)
        /\ m_function' = [m_function EXCEPT ![v] = At(c, "assign", v)]
        /\ broken' = (broken \/ At(v, "running", v))
        /\ UNCHANGED <<m_call, trigger, m_loop, m_executing, group, looped, overlapped, stopped,
                       late, served>>
    BY <1>2, <1>7, Zenon DEF SetFunction, flags
  <2>2. todo[v] = << >>
    <3>1. todo[c] # << >> /\ todo[c][1] = <<"forget", v>>
      BY <1>1, <2>1, GroupAt, Zenon
    <3>2. QED BY <3>1 DEF Grouped, FunctionsThere
  <2>3. broken' = broken
    <3>1. ~ At(v, "running", v)
      BY <2>2 DEF At
    <3>2. broken \in BOOLEAN
      BY DEF TypeOK
    <3>3. QED BY <2>1, <3>1, <3>2
  <2>4. \A u \in Worker : m_function'[u] = m_function[u] \/ (u = v /\ todo[v] = << >>)
    BY <2>1, <2>2 DEF TypeOK
  <2>5. Linked' /\ m_call' = m_call
    BY <1>9, <2>1, <2>3
  <2>6. "forget" \in Links \cup {"stop", "wait end", "forget"} /\ "forget" # "wait end"
    OBVIOUS
  <2>7. QED BY <1>3, <2>1, <2>4, <2>5, <2>6, Zenon
<1>8. QED BY <1>4, <1>5, <1>6, <1>7

\* execute()
LEMMA GroupExecute ==
    ASSUME TypeOK, group = Worker, Grouped, ~ broken, NEW c \in App, TriggerGroup(c)
    PROVE  Grouped' /\ todo' \in Todo
<1>1. /\ At(c, "trigger group", m_execute_start) /\ Continue(c)
      /\ trigger' = [trigger EXCEPT ![m_execute_start] = TRUE]
      /\ UNCHANGED <<m_call, m_loop, m_executing, m_function, group, looped, overlapped, broken,
                     stopped, late>>
  BY Zenon DEF TriggerGroup
<1>2. Done(c, "trigger group", m_execute_start)
  BY <1>1, GroupContinues DEF Grouped
<1>3. /\ Moved(c) /\ GroupChains' /\ Alone(c) /\ Place(todo[c]) = "trigger group"
      /\ Place(todo'[c]) = "none" /\ todo'[c] = << >>
  BY <1>2 DEF Done
<1>4. /\ \A v \in Worker : todo'[v] = todo[v]
      /\ \A d \in App : todo'[d] = << >> /\ Place(todo'[d]) = "none"
  BY <1>3, Zenon DEF Alone
<1>5. Ready /\ Ready' /\ group' = Worker
  <2>1. Ready
    BY <1>3 DEF Grouped, CompiledFirst
  <2>2. \A d \in App : Place(todo'[d]) \notin Links
    BY <1>4 DEF Links
  <2>3. QED BY <1>1, <2>1, <2>2 DEF Ready, Compiled
<1>11. Linked'
  BY <1>1, <1>5, ReadyReadable, StaysLinked
<1>6. CompiledFirst'
  <2>1. ASSUME NEW v \in Worker PROVE trigger'[v] = trigger[v]
    BY <1>1, ThreadAssumption DEF TypeOK
  <2>2. ASSUME NEW v \in Worker
        PROVE  /\ ~ m_loop[v]' /\ ~ trigger[v]'
               /\ Place(todo[v])' \notin {"wait call", "wait executing", "trigger"}
               /\ m_executing[v]' <=> Place(todo[v])' \in {"disable", "run", "running", "leave"}
    BY <1>1, <1>4, <2>1 DEF Grouped, CompiledFirst
  <2>3. /\ ~ looped' /\ ~ overlapped'
    BY <1>1 DEF Grouped, CompiledFirst
  <2>4. QED BY <1>5, <2>2, <2>3, Zenon DEF CompiledFirst
<1>7. FunctionsThere'
  BY <1>1, <1>4 DEF Grouped, FunctionsThere
<1>8. OneRuns'
  <2>1. trigger[m_execute_start]'
    BY <1>1 DEF TypeOK
  <2>2. \A d \in App : ~ Waits(d)'
    BY <1>4 DEF Waits
  <2>3. QED BY <2>1, <2>2 DEF OneRuns
<1>9. GroupStopped'
  <2>1. ~ stopped /\ late = 0
    BY <1>3 DEF Grouped, GroupStopped
  <2>2. QED BY <1>1, <2>1 DEF GroupStopped
<1>10. QED BY <1>3, <1>6, <1>7, <1>8, <1>9, <1>11, Zenon DEF Moved, Grouped

\* No call() of a thread.
LEMMA GroupOnly ==
    ASSUME Grouped, NEW c \in App, NEW v
    PROVE  ~ Trigger(c, v)
<1>1. SUFFICES ASSUME At(c, "trigger", v) PROVE FALSE
  BY DEF Trigger
<1>2. "trigger" \in GroupNames \/ "trigger" = "trigger group"
  BY <1>1, GroupAt DEF Grouped, GroupChains
<1>3. QED BY <1>2 DEF GroupNames

-----------------------------------------------------------------------------
(* The steps of the elements of a group *)

\* Nobody else does anything.
LEMMA ElementKeeps ==
    ASSUME Grouped, NEW v \in Worker, Moved(v), WorkerChain(todo'[v], v), todo[v] # << >>
    PROVE  /\ GroupChains'
           /\ \A d \in App : todo'[d] = todo[d]
           /\ \A u \in Worker : u # v => todo'[u] = todo[u]
           /\ UNCHANGED m_function => FunctionsThere'
<1>1. \A u \in Thread : u # v => todo'[u] = todo[u]
  BY DEF Moved
<1>2. /\ \A d \in App : todo'[d] = todo[d]
      /\ \A u \in Worker : u # v => todo'[u] = todo[u]
  BY <1>1, ThreadAssumption DEF Thread
<1>3. GroupChains'
  <2>1. \A u \in Worker : WorkerChain(todo'[u], u)
    BY <1>2 DEF Grouped, GroupChains
  <2>2. /\ \A d \in App : GroupChain(todo'[d])
        /\ \A a, d \in App : todo'[a] = << >> \/ d = a \/ todo'[d] = << >>
    BY <1>2 DEF Grouped, GroupChains
  <2>3. QED BY <2>1, <2>2, Zenon DEF GroupChains
<1>4. ASSUME m_function' = m_function PROVE FunctionsThere'
  <2>1. \A u \in Worker : m_function'[u] \/ todo'[u] = << >>
    BY <1>2, <1>4 DEF Grouped, FunctionsThere
  <2>2. ASSUME NEW d \in App, NEW u \in Worker, todo'[d] # << >>, todo'[d][1] = <<"forget", u>>
        PROVE  todo'[u] = << >>
    <3>1. todo[u] = << >>
      BY <1>2, <2>2 DEF Grouped, FunctionsThere
    <3>2. QED BY <1>2, <3>1
  <2>3. QED BY <2>1, <2>2 DEF FunctionsThere
<1>5. QED BY <1>2, <1>3, <1>4

LEMMA GroupPoll ==
    ASSUME TypeOK, group = Worker, Grouped, ~ broken, NEW v \in Worker, Poll(v)
    PROVE  Grouped' /\ todo' \in Todo
<1>1. WorkerChain(todo[v], v)
  BY DEF Grouped, GroupChains
<1>2. /\ Moved(v) /\ WorkerChain(todo'[v], v) /\ todo[v] # << >>
      /\ \/ Place(todo[v]) = "while" /\ Place(todo'[v]) \in {"poll", "none"}
         \/ Place(todo[v]) = "poll" /\ Triggered(v) /\ Place(todo'[v]) = "enter"
         \/ Place(todo[v]) = "poll" /\ ~ Triggered(v) /\ Place(todo'[v]) = "while"
  BY <1>1, PollMoves
<1>3. /\ GroupChains'
      /\ \A d \in App : todo'[d] = todo[d]
      /\ \A u \in Worker : u # v => todo'[u] = todo[u]
      /\ m_function' = m_function => FunctionsThere'
  BY <1>2, ElementKeeps
<1>4. UNCHANGED <<m_call, trigger, m_loop, m_executing, m_function, group, looped, overlapped,
                  broken, stopped, late, served>>
  BY Zenon DEF Poll, flags, history
<1>5. group' = Worker /\ Linked' /\ (Ready => Ready')
  BY <1>3, <1>4, StaysUnderWay
<1>6. Place(todo[v]) = "poll" /\ Triggered(v) => trigger[m_execute_start] /\ Ready
  <2>1. \A u \in Worker : ~ trigger[u]
    BY DEF Grouped, CompiledFirst
  <2>2. trigger[m_execute_start] => Ready
    BY DEF Grouped, CompiledFirst
  <2>3. Place(todo[v]) = "poll" => Readable(v)
    <3>1. At(v, "while", v) \/ Readable(v)
      BY Zenon DEF Poll
    <3>2. At(v, "while", v) => Place(todo[v]) = "while"
      BY <1>1, WorkerAt, Zenon
    <3>3. QED BY <3>1, <3>2
  <2>4. QED BY <2>1, <2>2, <2>3 DEF Triggered, Readable
<1>7. CompiledFirst'
  <2>1. ASSUME NEW u \in Worker
        PROVE  /\ ~ m_loop[u]' /\ ~ trigger[u]'
               /\ Place(todo[u])' \notin {"wait call", "wait executing", "trigger"}
               /\ Place(todo[u])' \in Early \cup {"running", "leave"} => Ready'
               /\ m_executing[u]' <=> Place(todo[u])' \in {"disable", "run", "running", "leave"}
    <3>1. CASE u # v
      BY <1>3, <1>4, <1>5, <3>1 DEF Grouped, CompiledFirst
    <3>2. CASE u = v
      <4>1. Place(todo[v]) \notin {"disable", "run", "running", "leave"}
        BY <1>2
      <4>2. Place(todo'[v]) \notin {"disable", "run", "running", "leave", "wait call",
                                    "wait executing", "trigger"}
        BY <1>2
      <4>3. Place(todo'[v]) \in Early \cup {"running", "leave"} => Ready'
        BY <1>2, <1>5, <1>6 DEF Early
      <4>4. ~ m_loop[v] /\ ~ trigger[v] /\ ~ m_executing[v]
        BY <4>1 DEF Grouped, CompiledFirst
      <4>5. QED BY <1>4, <3>2, <4>2, <4>3, <4>4
    <3>3. QED BY <3>1, <3>2
  <2>2. /\ ~ looped' /\ ~ overlapped'
        /\ trigger[m_execute_start]' => Ready'
        /\ \A d \in App : Place(todo'[d]) \in {"trigger group", "wait call", "wait executing"} =>
              Ready'
    BY <1>3, <1>4, <1>5 DEF Grouped, CompiledFirst
  <2>3. QED BY <2>1, <2>2, Zenon DEF CompiledFirst
<1>8. ~ trigger[m_execute_start] =>
         (Place(todo[v]) \notin Early \cup {"running", "leave"}
            /\ Place(todo'[v]) \notin Early \cup {"running", "leave"})
  BY <1>2, <1>6 DEF Early
<1>9. OneRuns'
  <2>1. \A d \in App : Waits(d)' => todo'[d] = GroupJoin' \/ ~ trigger[m_execute_start]'
    BY <1>3, <1>4, <1>5, GroupJoinSame DEF Grouped, OneRuns, Waits
  <2>2. ASSUME ~ trigger[m_execute_start]
        PROVE  \E u \in Worker :
                  MayHaveRun(u)' /\ \A d \in App : Waits(d)' => HasRun(u)' \/ WillCheck(d, u)'
    <3>1. PICK u \in Worker :
             MayHaveRun(u) /\ \A d \in App : Waits(d) => HasRun(u) \/ WillCheck(d, u)
      BY <2>2 DEF Grouped, OneRuns
    <3>2. MayHaveRun(u)' /\ (HasRun(u) => HasRun(u)')
      <4>1. CASE u # v
        BY <1>3, <1>4, <3>1, <4>1 DEF MayHaveRun, HasRun
      <4>2. CASE u = v
        <5>1. u \in served
          BY <1>2, <3>1, <4>2 DEF MayHaveRun
        <5>2. QED BY <1>4, <1>8, <2>2, <4>2, <5>1 DEF MayHaveRun, HasRun
      <4>3. QED BY <4>1, <4>2
    <3>3. \A d \in App : /\ Waits(d)' => Waits(d)
                         /\ WillCheck(d, u) => WillCheck(d, u)'
      BY <1>3 DEF Waits, WillCheck
    <3>4. QED BY <3>1, <3>2, <3>3, Zenon
  <2>3. trigger' = trigger
    BY <1>4
  <2>4. QED BY <2>1, <2>2, <2>3, Zenon DEF OneRuns
<1>10. GroupStopped'
  <2>1. CASE stopped
    <3>1. ~ trigger[m_execute_start]
      BY <2>1 DEF Grouped, GroupStopped
    <3>2. EarlyOnes' = EarlyOnes
      BY <1>3, <1>8, <3>1 DEF EarlyOnes
    <3>3. QED BY <1>3, <1>4, <2>1, <3>2 DEF Grouped, GroupStopped
  <2>2. CASE ~ stopped
    BY <1>4, <2>2 DEF Grouped, GroupStopped
  <2>3. QED BY <2>1, <2>2
<1>11. QED BY <1>2, <1>3, <1>4, <1>5, <1>7, <1>9, <1>10, Zenon DEF Moved, Grouped

LEMMA GroupRun ==
    ASSUME TypeOK, group = Worker, Grouped, ~ broken, NEW v \in Worker, RunStep(v)
    PROVE  Grouped' /\ todo' \in Todo
<1>1. WorkerChain(todo[v], v)
  BY DEF Grouped, GroupChains
<1>2. UNCHANGED <<m_call, m_loop, m_function, group, looped, overlapped, stopped>>
  BY Zenon DEF RunStep
<1>3. ~ m_loop[v] /\ ~ trigger[v]
  BY DEF Grouped, CompiledFirst
<1>4. /\ Moved(v) /\ WorkerChain(todo'[v], v) /\ todo[v] # << >>
      /\ \/ /\ Goes(v, "enter", "disable")
            /\ m_executing' = [m_executing EXCEPT ![v] = TRUE]
            /\ UNCHANGED <<trigger, broken, late, served>>
         \/ /\ Goes(v, "disable", "run")
            /\ trigger' = [trigger EXCEPT ![m_call[v]] = FALSE]
            /\ UNCHANGED <<m_executing, broken, late, served>>
         \/ /\ Goes(v, "run", "running")
            /\ broken' = (broken \/ ~ m_function[v])
            /\ late' = IF stopped THEN late + 1 ELSE late
            /\ served' = served \cup {v}
            /\ UNCHANGED <<trigger, m_executing>>
         \/ /\ Goes(v, "running", "leave")
            /\ UNCHANGED <<trigger, m_executing, broken, late, served>>
         \/ /\ Goes(v, "leave", "again")
            /\ m_executing' = [m_executing EXCEPT ![v] = FALSE]
            /\ UNCHANGED <<trigger, broken, late, served>>
         \/ /\ Goes(v, "again", "while")
            /\ UNCHANGED <<trigger, m_executing, broken, late, served>>
  <2>1. (IF m_loop[v] THEN "wait call" ELSE "while") = "while"
    BY <1>3
  <2>2. QED BY <1>1, <2>1, RunMoves, Zenon DEF Goes
<1>5. /\ GroupChains'
      /\ \A d \in App : todo'[d] = todo[d]
      /\ \A u \in Worker : u # v => todo'[u] = todo[u]
      /\ m_function' = m_function => FunctionsThere'
  BY <1>4, ElementKeeps
<1>14. ~ broken'
  <2>1. m_function[v]
    BY <1>4 DEF Grouped, FunctionsThere
  <2>2. QED BY <1>4, <2>1
<1>6. group' = Worker /\ Linked' /\ (Ready => Ready')
  BY <1>2, <1>5, <1>14, StaysUnderWay
<1>7. Place(todo[v]) \in Early \cup {"running", "leave"} => Ready /\ m_call[v] = m_execute_start
  BY DEF Grouped, CompiledFirst, Ready, Compiled
<1>8. /\ \A u \in Worker : ~ trigger'[u]
      /\ trigger'[m_execute_start] => trigger[m_execute_start]
  <2>1. trigger' = trigger \/ trigger' = [trigger EXCEPT ![m_call[v]] = FALSE]
    BY <1>4
  <2>2. \A u \in Worker : ~ trigger[u]
    BY DEF Grouped, CompiledFirst
  <2>3. QED BY <2>1, <2>2 DEF TypeOK
<1>9. CompiledFirst'
  <2>1. ASSUME NEW u \in Worker
        PROVE  /\ ~ m_loop[u]' /\ ~ trigger[u]'
               /\ Place(todo[u])' \notin {"wait call", "wait executing", "trigger"}
               /\ Place(todo[u])' \in Early \cup {"running", "leave"} => Ready'
               /\ m_executing[u]' <=> Place(todo[u])' \in {"disable", "run", "running", "leave"}
    <3>1. ~ m_loop[u]' /\ ~ trigger[u]'
      BY <1>2, <1>8 DEF Grouped, CompiledFirst
    <3>2. CASE u # v
      <4>1. m_executing'[u] = m_executing[u]
        BY <1>4, <3>2 DEF TypeOK
      <4>2. QED BY <1>5, <1>6, <3>1, <3>2, <4>1 DEF Grouped, CompiledFirst
    <3>3. CASE u = v
      <4>1. Place(todo'[v]) \notin {"wait call", "wait executing", "trigger"}
        BY <1>4 DEF Goes
      <4>2. Place(todo'[v]) \in Early \cup {"running", "leave"} => Ready'
        BY <1>4, <1>6, <1>7 DEF Goes, Early
      <4>3. m_executing'[v] <=> Place(todo'[v]) \in {"disable", "run", "running", "leave"}
        <5>1. m_executing[v] <=> Place(todo[v]) \in {"disable", "run", "running", "leave"}
          BY DEF Grouped, CompiledFirst
        <5>2. QED BY <1>4, <5>1 DEF TypeOK, Goes
      <4>4. QED BY <3>1, <3>3, <4>1, <4>2, <4>3
    <3>4. QED BY <3>2, <3>3
  <2>3. /\ ~ looped' /\ ~ overlapped'
        /\ trigger[m_execute_start]' => Ready'
        /\ \A d \in App : Place(todo'[d]) \in {"trigger group", "wait call", "wait executing"} =>
              Ready'
    BY <1>2, <1>5, <1>6, <1>8 DEF Grouped, CompiledFirst
  <2>4. QED BY <2>1, <2>3, Zenon DEF CompiledFirst
<1>10. \A d \in App : (Waits(d)' <=> Waits(d)) /\ \A u : (WillCheck(d, u)' <=> WillCheck(d, u))
  BY <1>5 DEF Waits, WillCheck
<1>11. OneRuns'
  <2>1. \A d \in App : Waits(d)' => todo'[d] = GroupJoin' \/ ~ trigger[m_execute_start]'
    BY <1>5, <1>6, <1>8, <1>10, GroupJoinSame DEF Grouped, OneRuns
  <2>2. ASSUME ~ trigger'[m_execute_start]
        PROVE  \E u \in Worker :
                  MayHaveRun(u)' /\ \A d \in App : Waits(d)' => HasRun(u)' \/ WillCheck(d, u)'
    <3>1. CASE trigger[m_execute_start]
      <4>1. MayHaveRun(v)'
        <5>1. Goes(v, "disable", "run")
          BY <1>4, <2>2, <3>1
        <5>2. QED BY <5>1 DEF Goes, MayHaveRun
      <4>2. ASSUME NEW d \in App, Waits(d)' PROVE WillCheck(d, v)'
        <5>1. todo[d] = GroupJoin
          BY <1>10, <3>1, <4>2 DEF Grouped, OneRuns
        <5>2. <<"wait call", v>> \in ToSet(GroupJoin)
          <6>1. "join" \in DOMAIN GroupStatements
            BY DEF GroupStatements
          <6>2. QED BY <6>1, GroupOpens
        <5>3. WillCheck(d, v)
          BY <5>1, <5>2 DEF WillCheck
        <5>4. QED BY <1>10, <5>3
      <4>3. QED BY <4>1, <4>2
    <3>2. CASE ~ trigger[m_execute_start]
      <4>1. PICK u \in Worker :
               MayHaveRun(u) /\ \A d \in App : Waits(d) => HasRun(u) \/ WillCheck(d, u)
        BY <3>2 DEF Grouped, OneRuns
      <4>2. u \in served => u \in served'
        BY <1>4
      <4>3. MayHaveRun(u)' /\ (HasRun(u) => HasRun(u)')
        <5>1. CASE u # v
          BY <1>5, <4>1, <4>2, <5>1 DEF MayHaveRun, HasRun
        <5>2. CASE u = v
          <6>1. /\ Place(todo[v]) = "run" => Place(todo'[v]) = "running" /\ v \in served'
                /\ Place(todo[v]) = "running" => Place(todo'[v]) = "leave"
                /\ Place(todo[v]) = "leave" => Place(todo'[v]) = "again"
                /\ Place(todo[v]) = "again" => Place(todo'[v]) = "while"
                /\ Place(todo[v]) \in Early \cup {"running", "leave", "again"}
            BY <1>4 DEF Goes, Early
          <6>2. Place(todo[v]) = "run" \/ (v \in served /\ Place(todo[v]) \notin Early)
            BY <4>1, <5>2 DEF MayHaveRun
          <6>3. v \in served' /\ Place(todo'[v]) \notin Early
            BY <4>2, <5>2, <6>1, <6>2 DEF Early
          <6>4. MayHaveRun(u)'
            BY <5>2, <6>3 DEF MayHaveRun
          <6>5. ASSUME HasRun(u) PROVE HasRun(u)'
            <7>1. Place(todo[v]) = "again"
              BY <5>2, <6>1, <6>5 DEF HasRun
            <7>2. Place(todo'[v]) \notin Early \cup {"running", "leave"}
              BY <6>1, <7>1 DEF Early
            <7>3. QED BY <5>2, <6>3, <7>2 DEF HasRun
          <6>6. QED BY <6>4, <6>5
        <5>3. QED BY <5>1, <5>2
      <4>4. QED BY <1>10, <4>1, <4>3, Zenon
    <3>3. QED BY <3>1, <3>2
  <2>3. QED BY <2>1, <2>2, Zenon DEF OneRuns
<1>12. GroupStopped'
  <2>1. CASE ~ stopped
    <3>1. late' = 0 /\ ~ stopped'
      BY <1>2, <1>4, <2>1 DEF Grouped, GroupStopped
    <3>2. QED BY <3>1 DEF GroupStopped
  <2>2. CASE stopped
    <3>1. /\ ~ trigger'[m_execute_start] /\ \A d \in App : Place(todo'[d]) # "trigger group"
          /\ late + Cardinality(EarlyOnes) < Cardinality(Worker)
      BY <1>5, <1>8, <2>2 DEF Grouped, GroupStopped
    <3>2. late' + Cardinality(EarlyOnes') < Cardinality(Worker)
      <4>1. CASE ~ Goes(v, "run", "running")
        <5>1. Place(todo'[v]) \in Early <=> Place(todo[v]) \in Early
          BY <1>4, <4>1 DEF Goes, Early
        <5>2. EarlyOnes' = EarlyOnes
          BY <1>5, <5>1 DEF EarlyOnes
        <5>3. late' = late
          BY <1>4, <4>1
        <5>4. QED BY <3>1, <5>2, <5>3
      <4>2. CASE Goes(v, "run", "running")
        <5>1. Place(todo[v]) \in Early /\ Place(todo'[v]) \notin Early
          BY <4>2 DEF Goes, Early
        <5>2. EarlyOnes' = EarlyOnes \ {v} /\ v \in EarlyOnes /\ EarlyOnes \subseteq Worker
          BY <1>5, <5>1 DEF EarlyOnes
        <5>3. IsFiniteSet(EarlyOnes) /\ Cardinality(EarlyOnes) \in Nat
          BY <5>2, ThreadAssumption, FS_Subset, FS_CardinalityType
        <5>4. Cardinality(EarlyOnes') = Cardinality(EarlyOnes) - 1
          BY <5>2, <5>3, FS_RemoveElement
        <5>5. late' = late + 1
          BY <1>4, <2>2, <4>2 DEF Goes
        <5>6. PICK n, m, k : n = Cardinality(EarlyOnes) /\ m = Cardinality(EarlyOnes')
                             /\ k = Cardinality(Worker)
          OBVIOUS
        <5>7. n \in Nat /\ m = n - 1 /\ late + n < k /\ late \in Nat
          BY <3>1, <5>3, <5>4, <5>6, TypeParts
        <5>8. late' + m = late + n
          BY <5>5, <5>7
        <5>9. QED BY <5>6, <5>7, <5>8
      <4>3. QED BY <4>1, <4>2
    <3>3. stopped'
      BY <1>2, <2>2
    <3>4. QED BY <3>1, <3>2, <3>3 DEF GroupStopped
  <2>3. QED BY <2>1, <2>2
<1>13. QED BY <1>2, <1>4, <1>5, <1>6, <1>9, <1>11, <1>12, Zenon DEF Moved, Grouped

\* No element calls itself.
LEMMA ElementOnly ==
    ASSUME TypeOK, Grouped, NEW v \in Worker, NEW u \in Worker
    PROVE  /\ ~ Wait(v, u) /\ ~ Trigger(v, u)
           /\ ~ Link(v, u) /\ ~ SetFlag(v, u) /\ ~ SetFunction(v, u)
           /\ ~ WaitEnd(v, u) /\ ~ TriggerGroup(v)
<1>1. WorkerChain(todo[v], v)
  BY DEF Grouped, GroupChains
<1>2. Place(todo[v]) \notin {"wait call", "wait executing", "trigger"}
  BY DEF Grouped, CompiledFirst
<1>3. ~ Trigger(v, u)
  <2>1. SUFFICES ASSUME Trigger(v, u) PROVE FALSE
    OBVIOUS
  <2>2. Place(todo[v]) = "trigger"
    BY <1>1, <2>1, WorkerTriggers, Zenon DEF Goes
  <2>3. QED BY <1>2, <2>2
<1>4. ~ Wait(v, u)
  <2>1. ASSUME NEW x \in {"wait call", "wait executing", "wait loop"}, At(v, x, u) PROVE FALSE
    <3>1. Place(todo[v]) = x /\ todo[v] # << >>
      BY <1>1, <2>1, WorkerAt, Zenon
    <3>2. x = "wait loop"
      BY <1>2, <3>1
    <3>3. Place(todo[v]) \in WorkerNames
      BY <1>1, <3>1, WorkerPlace
    <3>4. QED BY <3>1, <3>2, <3>3 DEF WorkerNames
  <2>2. QED BY <2>1, Zenon DEF Wait
<1>5. QED BY <1>1, <1>3, <1>4, WorkerOnly

-----------------------------------------------------------------------------
(* The invariant *)

LEMMA GroupStays ==
    ASSUME Next
    PROVE  group' = group
<1>1. ASSUME NEW t, NEW w
      PROVE  /\ Wait(t, w) \/ Trigger(t, w) \/ Link(t, w) \/ Misread(t, w) => group' = group
             /\ SetFlag(t, w) \/ SetFunction(t, w) \/ WaitEnd(t, w) => group' = group
             /\ Poll(w) \/ RunStep(w) \/ TriggerGroup(t) => group' = group
  <2>1. Wait(t, w) \/ Trigger(t, w) \/ Link(t, w) \/ Misread(t, w) => group' = group
    BY Zenon DEF Wait, Trigger, Link, Misread
  <2>2. SetFlag(t, w) \/ SetFunction(t, w) \/ WaitEnd(t, w) => group' = group
    BY Zenon DEF SetFlag, SetFunction, WaitEnd
  <2>3. Poll(w) \/ RunStep(w) \/ TriggerGroup(t) => group' = group
    BY Zenon DEF Poll, RunStep, TriggerGroup
  <2>4. QED BY <2>1, <2>2, <2>3
<1>2. ASSUME NEW c, NEW w, NEW op
      PROVE  Begin(c, w, op) \/ BeginGroup(c, op) => group' = group
  BY Zenon DEF Begin, BeginGroup
<1>3. QED BY <1>1, <1>2, Zenon DEF Next, Step

LEMMA GroupedNext ==
    ASSUME TypeOK, group = Worker, Grouped, Next
    PROVE  Grouped' /\ todo' \in Todo
<1>1. ASSUME NEW c \in App, NEW v \in Worker, NEW op, Begin(c, v, op) PROVE FALSE
  BY <1>1, ThreadAssumption DEF Begin
<1>8. ~ broken
  BY Zenon DEF Next
<1>2. ASSUME NEW c \in App, NEW op \in DOMAIN GroupStatements, BeginGroup(c, op)
      PROVE  Grouped' /\ todo' \in Todo
  BY <1>2, <1>8, GroupBegin
<1>9. ASSUME NEW t \in Thread, NEW v \in Worker, Misread(t, v) PROVE Grouped' /\ todo' \in Todo
  BY <1>9, GroupMisreads
<1>3. ASSUME NEW c \in App, Step(c) PROVE Grouped' /\ todo' \in Todo
  <2>1. c \notin Worker
    BY ThreadAssumption
  <2>2. CASE TriggerGroup(c)
    BY <1>8, <2>2, GroupExecute
  <2>3. CASE ~ TriggerGroup(c)
    <3>1. PICK v \in Worker : \/ Wait(c, v) \/ Link(c, v) \/ Misread(c, v)
                              \/ SetFlag(c, v) \/ SetFunction(c, v) \/ WaitEnd(c, v)
      BY <1>3, <2>1, <2>3, GroupOnly, Zenon DEF Step
    <3>2. c \in Thread
      BY DEF Thread
    <3>3. QED BY <1>8, <1>9, <3>1, <3>2, GroupWait, GroupSets, Zenon
  <2>4. QED BY <2>2, <2>3
<1>4. ASSUME NEW v \in Worker, Step(v) PROVE Grouped' /\ todo' \in Todo
  <2>1. Poll(v) \/ RunStep(v) \/ \E u \in Worker : Misread(v, u)
    BY <1>4, ElementOnly, Zenon DEF Step
  <2>2. v \in Thread
    BY DEF Thread
  <2>3. QED BY <1>8, <1>9, <2>1, <2>2, GroupPoll, GroupRun
<1>5. Thread = App \cup Worker
  BY DEF Thread
<1>6. CASE \E t \in Thread : Step(t)
  BY <1>3, <1>4, <1>5, <1>6
<1>7. QED BY <1>1, <1>2, <1>6, Zenon DEF Next

LEMMA GroupedInit ==
    ASSUME Init, group = Worker
    PROVE  TypeOK /\ Grouped
<1>1. Worker # {} /\ Worker \cap App = {}
  BY ThreadAssumption
<1>2. todo = [t \in Thread |-> IF t \in Worker THEN <<<<"while", t>>>> ELSE << >>]
  BY <1>1 DEF Init
<1>3. \A v \in Worker : todo[v] = <<<<"while", v>>>>
  BY <1>2 DEF Thread
<1>4. \A c \in App : todo[c] = << >>
  BY <1>1, <1>2 DEF Thread
<1>5. \A v \in Worker : /\ WorkerChain(todo[v], v) /\ Place(todo[v]) = "while"
                        /\ todo[v] # << >>
  BY <1>3, WorkerLoops, Zenon
<1>6. GroupChain(<< >>) /\ Place(<< >>) = "none"
  <2>1. PICK S, N, L : S = GroupStatement /\ N = GroupNext /\ L = GroupLast
    OBVIOUS
  <2>2. PICK s \in Seq(S) : s = << >> /\ Len(s) = 0
    <3>1. << >> \in Seq(S) /\ Len(<< >>) = 0
      OBVIOUS
    <3>2. QED BY <3>1
  <2>3. \A i \in 1 .. Len(s) - 1 : <<s[i], s[i + 1]>> \in N
    BY <2>2
  <2>4. Chain(s, S, N, L)
    BY <2>2, <2>3, Zenon DEF Chain
  <2>5. Place(<< >>) = "none"
    BY Zenon DEF Place
  <2>6. QED BY <2>1, <2>2, <2>4, <2>5, Zenon DEF GroupChain
<1>7. \A c \in App : Place(todo[c]) = "none" /\ GroupChain(todo[c])
  BY <1>4, <1>6
<1>8. GroupChains
  BY <1>4, <1>5, <1>7 DEF GroupChains
<1>9. /\ \A v \in Worker : /\ ~ m_loop[v] /\ ~ trigger[v] /\ m_call[v] = v /\ ~ m_executing[v]
                           /\ m_function[v]
      /\ ~ trigger[m_execute_start] /\ late = 0 /\ ~ stopped /\ served = Worker
      /\ ~ looped /\ ~ overlapped /\ ~ broken
  BY <1>1 DEF Init
<1>10. CompiledFirst
  BY <1>5, <1>7, <1>9 DEF CompiledFirst, Early
<1>16. Linked
  BY <1>9 DEF Linked, Readable
<1>11. FunctionsThere
  BY <1>4, <1>9 DEF FunctionsThere
<1>12. OneRuns
  <2>1. \A v \in Worker : MayHaveRun(v)
    BY <1>5, <1>9 DEF MayHaveRun, Early
  <2>2. \A c \in App : ~ Waits(c)
    BY <1>7 DEF Waits
  <2>3. QED BY <1>1, <2>1, <2>2 DEF OneRuns
<1>13. GroupStopped
  BY <1>9 DEF GroupStopped
<1>14. TypeOK
  <2>1. todo \in Todo
    <3>1. << >> \in Seq(Name \X (Worker \cup {m_execute_start}))
      OBVIOUS
    <3>2. \A v \in Worker : <<<<"while", v>>>> \in Seq(Name \X (Worker \cup {m_execute_start}))
      <4>1. WorkerNames \in SUBSET Name
        BY DEF WorkerNames, Name
      <4>2. \A v \in Worker : WorkerChain(<<<<"while", v>>>>, v)
        BY <1>3, <1>5
      <4>3. QED BY <4>1, <4>2, NamedTyped, Zenon DEF WorkerChain
    <3>3. QED BY <1>2, <3>1, <3>2 DEF Todo
  <2>2. /\ m_call \in [Worker -> Worker \cup {m_execute_start, Freed, Null}]
        /\ trigger \in [Worker \cup {m_execute_start} -> BOOLEAN]
        /\ m_persist \in [Worker -> BOOLEAN] /\ m_loop \in [Worker -> BOOLEAN]
        /\ m_executing \in [Worker -> BOOLEAN] /\ m_function \in [Worker -> BOOLEAN]
    BY DEF Init
  <2>3. QED BY <2>1, <2>2, TypeParts DEF Init
<1>15. QED BY <1>8, <1>10, <1>11, <1>12, <1>13, <1>14, <1>16, Zenon DEF Grouped

\* Initially, and whatever anybody does.
LEMMA IInvInit ==
    ASSUME Init
    PROVE  IInv
<1>1. CASE group = {}
  BY <1>1, SoloInit DEF IInv
<1>2. CASE group = Worker
  BY <1>2, GroupedInit DEF IInv
<1>3. QED BY <1>1, <1>2 DEF Init

LEMMA IInvNext ==
    ASSUME IInv, Next
    PROVE  IInv'
<1>1. group' = group
  BY GroupStays
<1>2. CASE group = {} /\ Solo(TheWorker)
  <2>1. TheWorker \in Worker
    BY ThreadAssumption DEF TheWorker
  <2>2. Solo(TheWorker)' /\ todo' \in Todo
    BY <1>2, <2>1, SoloNext DEF IInv
  <2>3. TypeOK'
    BY <2>2, NextTyped DEF IInv
  <2>4. QED BY <1>1, <1>2, <2>2, <2>3 DEF IInv
<1>3. CASE group = Worker /\ Grouped
  <2>1. Grouped' /\ todo' \in Todo
    BY <1>3, GroupedNext DEF IInv
  <2>2. TypeOK'
    BY <2>1, NextTyped DEF IInv
  <2>3. QED BY <1>1, <1>3, <2>1, <2>2 DEF IInv
<1>4. QED BY <1>2, <1>3 DEF IInv

LEMMA IInvStays ==
    ASSUME IInv, UNCHANGED vars
    PROVE  IInv'
<1>1. UNCHANGED <<m_call, trigger, m_persist, m_loop, m_executing, m_function, todo, group, begun,
                  joined, looped, overlapped, owed, broken, crossed, stopped, late, served>>
  BY DEF vars, flags, history
<1>2. TypeOK'
  BY <1>1 DEF IInv, TypeOK
<1>3. ASSUME NEW w, Solo(w) PROVE Solo(w)'
  <2>1. SoloChains(w)' /\ Marked(w)' /\ Stopped(w)' /\ Ended(w)' /\ Untriggered(w)'
    BY <1>1, <1>3 DEF Solo, SoloChains, Marked, Stopped, ToCome, Runs, RunsAgain, Ended,
                      Untriggered
  <2>2. ASSUME Orderly(w) PROVE Orderly(w)'
    BY <1>1, <2>2 DEF Orderly, NoLoop, OneCaller, Rests
  <2>3. QED BY <1>1, <1>3, <2>1, <2>2 DEF Solo
<1>4. ASSUME group = Worker, Grouped PROVE Grouped'
  <2>1. GroupChains' /\ CompiledFirst' /\ FunctionsThere'
    BY <1>1, <1>4 DEF Grouped, GroupChains, CompiledFirst, Ready, Compiled, FunctionsThere
  <2>6. Linked'
    BY <1>1, <1>4 DEF Grouped, Linked, PolledWhileLinked, LinkUnderWay, At, Readable
  <2>2. GroupJoin' = GroupJoin
    BY <1>1, <1>4, GroupJoinSame
  <2>3. OneRuns'
    BY <1>1, <1>4, <2>2 DEF Grouped, OneRuns, Waits, MayHaveRun, HasRun, WillCheck
  <2>4. GroupStopped'
    BY <1>1, <1>4 DEF Grouped, GroupStopped, EarlyOnes
  <2>5. QED BY <2>1, <2>3, <2>4, <2>6 DEF Grouped
<1>5. QED BY <1>1, <1>2, <1>3, <1>4 DEF IInv

\* The invariant holds, whether there is one thread or a group.
THEOREM InvariantHolds == Spec => []IInv
<1>1. IInv /\ [Next]_vars => IInv'
  BY IInvNext, IInvStays
<1>2. QED BY <1>1, IInvInit, PTL DEF Spec

-----------------------------------------------------------------------------
(* What it says of the flags *)

\* Of one thread and of the others.
LEMMA OnlyTheWorker ==
    ASSUME IInv, group = {}
    PROVE  /\ TypeOK /\ Solo(TheWorker) /\ TheWorker \in Worker
           /\ \A v \in Worker : v # TheWorker => todo[v] = << >>
<1>1. Worker # {} /\ TheWorker \in Worker
  BY ThreadAssumption DEF TheWorker
<1>2. TypeOK /\ Solo(TheWorker)
  BY <1>1 DEF IInv
<1>3. QED BY <1>1, <1>2 DEF Solo, SoloChains

\* No call() of one thread is lost in the trigger of another call(): it stands
\* for all that no run has answered.
THEOREM NoCallLostHolds == Spec => []NoCallLost
<1>1. ASSUME IInv PROVE NoCallLost
  <2>1. SUFFICES ASSUME ~ looped, ~ overlapped, NEW w \in Worker \ group, todo[w] # << >>
                 PROVE  owed = IF Triggered(w) THEN 1 ELSE 0
    BY DEF NoCallLost
  <2>2. group = {}
    BY <1>1, <2>1 DEF IInv
  <2>3. w = TheWorker /\ Solo(w)
    BY <1>1, <2>1, <2>2, OnlyTheWorker
  <2>4. m_call[w] = w /\ owed = IF trigger[w] THEN 1 ELSE 0
    BY <2>1, <2>3 DEF Solo, Orderly, Marked
  <2>5. QED BY <2>4 DEF Triggered
<1>2. QED BY <1>1, InvariantHolds, PTL

\* The function is there when it is run and nobody touches it meanwhile, unless
\* somebody loops or two threads call at once; and nobody uses a trigger that is
\* gone, but a worker that polls while compile() links its trigger.
THEOREM NeverBrokenHolds == Spec => []NeverBroken
<1>1. ASSUME IInv PROVE NeverBroken
  <2>1. TypeOK
    BY <1>1 DEF IInv
  <2>2. ASSUME ~ looped, ~ overlapped, broken PROVE \E w \in group : PolledWhileLinked(w)
    BY <1>1, <2>2 DEF IInv, Solo, Orderly, Grouped, Linked
  <2>3. QED BY <2>1, <2>2 DEF NeverBroken
<1>2. QED BY <1>1, InvariantHolds, PTL

\* After stop_loop() one run at the most, after join() one of each element but
\* the one that cleared the trigger.
THEOREM OneLateRunHolds == Spec => []OneLateRun
<1>1. ASSUME IInv PROVE OneLateRun
  <2>1. late \in Nat /\ Cardinality(Worker) \in Nat /\ Cardinality(Worker) > 0
    BY <1>1, TypeParts, OrderOfElements DEF IInv
  <2>2. CASE group = {}
    <3>1. PICK w \in Worker : w = TheWorker /\ Solo(w)
      BY <1>1, <2>2, OnlyTheWorker
    <3>2. ToCome(w) \in Nat
      BY DEF ToCome
    <3>3. late = 0 \/ late + ToCome(w) <= 1
      BY <3>1 DEF Solo, Stopped
    <3>4. late <= 1
      BY <2>1, <3>2, <3>3
    <3>5. QED BY <2>2, <3>4 DEF OneLateRun
  <2>3. CASE group # {}
    <3>1. group = Worker /\ Grouped
      BY <1>1, <2>3 DEF IInv
    <3>2. late = 0 \/ late + Cardinality(EarlyOnes) < Cardinality(Worker)
      BY <3>1 DEF Grouped, GroupStopped
    <3>3. Cardinality(EarlyOnes) \in Nat
      <4>1. EarlyOnes \subseteq Worker
        BY DEF EarlyOnes
      <4>2. QED BY <4>1, ThreadAssumption, FS_Subset, FS_CardinalityType
    <3>4. late <= Cardinality(Worker) - 1
      BY <2>1, <3>2, <3>3
    <3>5. QED BY <2>3, <3>1, <3>4 DEF OneLateRun
  <2>4. QED BY <2>2, <2>3
<1>2. QED BY <1>1, InvariantHolds, PTL

\* A worker that waits for itself has been triggered when it was not idle.
THEOREM WaitsForItselfOnlyWhenCrossedHolds == Spec => []WaitsForItselfOnlyWhenCrossed
<1>1. ASSUME IInv PROVE WaitsForItselfOnlyWhenCrossed
  <2>1. SUFFICES ASSUME NEW w \in Worker, At(w, "wait call", w), Triggered(w) PROVE crossed
    BY DEF WaitsForItselfOnlyWhenCrossed, WaitsForItself
  <2>2. todo[w] # << >>
    BY <2>1 DEF At
  <2>3. CASE group = {}
    <3>1. w = TheWorker /\ Solo(w)
      BY <1>1, <2>2, <2>3, OnlyTheWorker
    <3>2. WorkerChain(todo[w], w) /\ trigger[w]
      BY <2>1, <3>1 DEF Solo, SoloChains, Marked, Triggered
    <3>3. Place(todo[w]) = "wait call"
      BY <2>1, <3>2, WorkerAt, Zenon
    <3>4. QED BY <3>1, <3>2, <3>3 DEF Solo, Untriggered
  <2>4. CASE group # {}
    <3>1. Grouped
      BY <1>1, <2>4 DEF IInv
    <3>2. WorkerChain(todo[w], w) /\ Place(todo[w]) # "wait call"
      BY <3>1 DEF Grouped, GroupChains, CompiledFirst
    <3>3. QED BY <2>1, <3>2, WorkerAt, Zenon
  <2>5. QED BY <2>3, <2>4
<1>2. QED BY <1>1, InvariantHolds, PTL

-----------------------------------------------------------------------------
(* What it says of the waits *)

LEMMA NotWorking ==
    ASSUME NEW w, WorkerChain(todo[w], w), Place(todo[w]) \notin Early \cup {"running", "leave"}
    PROVE  ~ Working(w)
BY WorkingPlace DEF Working

\* join_call() returns to a thread of the application when the worker neither
\* runs nor is about to, unless somebody loops or two threads call at once.
THEOREM JoinedMeansDoneHolds == Spec => JoinedMeansDone
<1>1. ASSUME IInv, NEW c \in App, NEW w \in Worker \ group, ~ looped, ~ overlapped, Wait(c, w),
             todo'[c] = << >>
      PROVE  ~ Triggered(w) /\ ~ Working(w)
  <2>1. group = {}
    BY <1>1 DEF IInv
  <2>2. PICK v \in Worker : v = TheWorker /\ Solo(v) /\ TypeOK
    BY <1>1, <2>1, OnlyTheWorker
  <2>3. w = v /\ Waited(c, v)
    BY <1>1, <2>2, SoloWaitMoves DEF Solo
  <2>4. Place(todo[c]) = "wait executing" /\ ~ m_executing[v]
    <3>1. Place(todo'[c]) = "none"
      BY <1>1, <2>3 DEF Waited
    <3>2. QED BY <2>3, <3>1 DEF Waited, Goes
  <2>5. Marked(v) /\ WorkerChain(todo[v], v) /\ ~ trigger[v]
    BY <1>1, <2>2, <2>4 DEF Solo, SoloChains, Orderly
  <2>6. Rests(v)
    BY <2>4, <2>5, SeenToRest
  <2>7. ~ Working(v)
    BY <2>5, <2>6, NotWorking DEF Rests
  <2>8. ~ Triggered(v)
    BY <2>5 DEF Marked, Triggered
  <2>9. QED BY <2>3, <2>7, <2>8
<1>2. IInv => \A c \in App, w \in Worker \ group :
                 ~ looped /\ ~ overlapped /\ Wait(c, w) /\ todo'[c] = << >>
                     => ~ Triggered(w) /\ ~ Working(w)
  BY <1>1
<1>3. QED BY <1>2, InvariantHolds, PTL DEF JoinedMeansDone

\* join() of a group returns when one of its elements has begun and ended a run
\* since execute().
THEOREM GroupJoinedMeansOneRanHolds == Spec => GroupJoinedMeansOneRan
<1>1. ASSUME IInv, NEW c \in App, NEW w \in group, Wait(c, w), todo'[c] = << >>
      PROVE  \E v \in served : ~ Working(v)
  <2>1. group = Worker /\ Grouped /\ TypeOK /\ w \in Worker
    BY <1>1 DEF IInv
  <2>2. GroupWaited(c, w)
    BY <1>1, <2>1, GroupWaits DEF Grouped
  <2>3. GroupSeen(c)
    BY <1>1, <2>1, <2>2, GroupSees
  <2>4. PICK v \in Worker : HasRun(v)
    BY <1>1, <2>3, GroupReturns
  <2>5. v \in served /\ ~ Working(v)
    BY <2>1, <2>4, NotWorking DEF Grouped, GroupChains, HasRun
  <2>6. QED BY <2>5
<1>2. IInv => \A c \in App, w \in group :
                 Wait(c, w) /\ todo'[c] = << >> => \E v \in served : ~ Working(v)
  BY <1>1
<1>3. QED BY <1>2, InvariantHolds, PTL DEF GroupJoinedMeansOneRan
=============================================================================
