--------------------------- MODULE ConnectionProofs ---------------------------
(***************************************************************************)
(* The connections of the distributed system: what a step of a thread, of  *)
(* the schedule loop or of a worker process makes of what a connection     *)
(* carries.  Nothing here depends on the scheduler's invariants.           *)
(***************************************************************************)
EXTENDS Coordinator, TLAPS, WellFoundedInduction

(* Zenon takes the steps; one that needs arithmetic names SMT.             *)
USE ZenonT(60)

-----------------------------------------------------------------------------
(* The record of a connection.                                             *)

Fields == {"thread", "boot", "proc", "down", "up", "reading"}

Wired == DOMAIN conn = Conn /\ \A c \in Conn : DOMAIN conn[c] = Fields

(* What a step may do to a connection short of closing it: its thread goes *)
(* on watching, if it was, and its boot id stays.                          *)
GoesOn(k, l) ==
  /\ DOMAIN l = Fields /\ l.boot = k.boot
  /\ l.thread = k.thread \/ k.thread = "none" \/ l.thread \in {"acking", "reading", "refusing"}
  /\ l.thread = "closed" => k.thread = "closed"

LEMMA WrittenFacts ==
  ASSUME NEW k, DOMAIN k = Fields, NEW piece
  PROVE  LET l == Written(k, piece) IN
         DOMAIN l = Fields /\ l.boot = k.boot /\ l.thread = k.thread
<1>1. CASE k.proc \in {"waiting", "serving"}
  <2> DEFINE x == Append(k.down, piece)
  <2>1. Written(k, piece) = [k EXCEPT !.down = x]
    BY <1>1 DEF Written
  <2> HIDE DEF x
  <2>2. DOMAIN [k EXCEPT !.down = x] = Fields /\ [k EXCEPT !.down = x].boot = k.boot
        /\ [k EXCEPT !.down = x].thread = k.thread
    BY DEF Fields
  <2>3. QED BY <2>1, <2>2
<1>2. CASE k.proc \notin {"waiting", "serving"}
  BY <1>2 DEF Written
<1>3. QED BY <1>1, <1>2

(* The connections go on, all of them, in every step but three.            *)
ConnectionsGoOn == \A c \in Conn : GoesOn(conn[c], conn'[c])

LEMMA WritesGoOn ==
  ASSUME Wired, NEW c \in Conn, NEW piece, NEW y,
         \/ conn' = [conn EXCEPT ![c] = Written(@, piece)]
         \/ conn' = [conn EXCEPT ![c] = [Written(@, piece) EXCEPT !.thread = "acking"]]
         \/ conn' = [conn EXCEPT ![c] = [Written(@, piece) EXCEPT !.thread = "reading"]]
         \/ conn' = [conn EXCEPT ![c] = [Written(@, piece) EXCEPT !.thread = "refusing", !.reading = y]]
  PROVE  Wired' /\ ConnectionsGoOn
<1> DEFINE k == Written(conn[c], piece)
<1>1. DOMAIN conn = Conn /\ DOMAIN k = Fields /\ k.boot = conn[c].boot /\ k.thread = conn[c].thread
  BY WrittenFacts DEF Wired
<1>2. /\ DOMAIN conn' = Conn /\ \A e \in Conn \ {c} : conn'[e] = conn[e]
      /\ \/ conn'[c] = k
         \/ conn'[c] = [k EXCEPT !.thread = "acking"]
         \/ conn'[c] = [k EXCEPT !.thread = "reading"]
         \/ conn'[c] = [k EXCEPT !.thread = "refusing", !.reading = y]
  BY <1>1
<1> HIDE DEF k
<1>3. /\ DOMAIN conn'[c] = Fields /\ conn'[c].boot = k.boot
      /\ conn'[c].thread = k.thread \/ conn'[c].thread \in {"acking", "reading", "refusing"}
  BY ONLY <1>1, <1>2, ZenonT(60) DEF Fields
<1>4. conn'[c].thread = "closed" => k.thread = "closed"
  BY <1>3
<1>5. QED BY <1>1, <1>2, <1>3, <1>4 DEF Wired, ConnectionsGoOn, GoesOn

(* Steps that leave the thread of the connection where it is.              *)
LEMMA ThreadStays ==
  ASSUME Wired, NEW c \in Conn, NEW x, NEW y, NEW z,
         \/ conn' = [conn EXCEPT ![c].reading = x]
         \/ conn' = [conn EXCEPT ![c].reading = x, ![c].up = y]
         \/ conn' = [conn EXCEPT ![c].down = x]
         \/ conn' = [conn EXCEPT ![c].down = x, ![c].up = y]
         \/ conn' = [conn EXCEPT ![c].proc = x, ![c].down = y]
         \/ conn' = [conn EXCEPT ![c].proc = x, ![c].down = y, ![c].up = z]
  PROVE  Wired' /\ ConnectionsGoOn
<1> DEFINE k == conn[c]
<1>1. DOMAIN conn = Conn /\ DOMAIN k = Fields
  BY DEF Wired
<1>2. /\ DOMAIN conn' = Conn /\ \A e \in Conn \ {c} : conn'[e] = conn[e]
      /\ \/ conn'[c] = [k EXCEPT !.reading = x]
         \/ conn'[c] = [k EXCEPT !.reading = x, !.up = y]
         \/ conn'[c] = [k EXCEPT !.down = x]
         \/ conn'[c] = [k EXCEPT !.down = x, !.up = y]
         \/ conn'[c] = [k EXCEPT !.proc = x, !.down = y]
         \/ conn'[c] = [k EXCEPT !.proc = x, !.down = y, !.up = z]
  BY ONLY <1>1, c \in Conn,
         \/ conn' = [conn EXCEPT ![c].reading = x]
         \/ conn' = [conn EXCEPT ![c].reading = x, ![c].up = y]
         \/ conn' = [conn EXCEPT ![c].down = x]
         \/ conn' = [conn EXCEPT ![c].down = x, ![c].up = y]
         \/ conn' = [conn EXCEPT ![c].proc = x, ![c].down = y]
         \/ conn' = [conn EXCEPT ![c].proc = x, ![c].down = y, ![c].up = z], ZenonT(60)
<1> HIDE DEF k
<1>3. DOMAIN conn'[c] = Fields /\ conn'[c].boot = k.boot /\ conn'[c].thread = k.thread
  BY ONLY <1>1, <1>2, ZenonT(60) DEF Fields
<1>4. QED BY <1>1, <1>2, <1>3 DEF Wired, ConnectionsGoOn, GoesOn, k

LEMMA ConnectionsQuiet ==
  ASSUME Wired, [NetNext]_allVars,
         \A c \in Conn : ~StoreSocket(c) /\ ~Register(c) /\ ~ConnectionEnds(c)
  PROVE  Wired' /\ ConnectionsGoOn /\ socks' = socks
<1>1. UNCHANGED conn => Wired' /\ ConnectionsGoOn
  BY DEF Wired, ConnectionsGoOn, GoesOn
<1>2. ASSUME NEW c \in Conn, Connect(c)
      PROVE  Wired' /\ ConnectionsGoOn /\ socks' = socks
  <2>1. /\ conn[c].thread = "none" /\ socks' = socks
        /\ conn' = [conn EXCEPT ![c].thread = "accepted", ![c].proc = "waiting"]
    BY <1>2 DEF Connect
  <2>2. DOMAIN conn = Conn /\ DOMAIN conn[c] = Fields
    BY DEF Wired
  <2>3. /\ DOMAIN conn' = Conn /\ \A e \in Conn \ {c} : conn'[e] = conn[e]
        /\ conn'[c] = [conn[c] EXCEPT !.thread = "accepted", !.proc = "waiting"]
    BY ONLY <2>1, <2>2, ZenonT(60)
  <2>4. DOMAIN conn'[c] = Fields /\ conn'[c].boot = conn[c].boot /\ conn'[c].thread = "accepted"
    BY ONLY <2>2, <2>3, ZenonT(60) DEF Fields
  <2>5. Wired' /\ ConnectionsGoOn
    BY <2>1, <2>2, <2>3, <2>4 DEF Wired, ConnectionsGoOn, GoesOn
  <2>6. QED BY <2>1, <2>5
<1>3. ASSUME NEW c \in Conn, AckHead(c) \/ AckBody(c) \/ RefuseResult(c) \/ ErrorBody(c)
      PROVE  Wired' /\ ConnectionsGoOn /\ socks' = socks
  <2>1. socks' = socks
    BY <1>3 DEF AckHead, AckBody, RefuseResult, ErrorBody
  <2>2. CASE AckHead(c)
    <3>1. conn' = [conn EXCEPT ![c] = [Written(@, HeadOf(Control("ack"))) EXCEPT !.thread = "acking"]]
      BY <2>2 DEF AckHead
    <3>2. QED BY <2>1, <3>1, WritesGoOn
  <2>3. CASE AckBody(c)
    <3>1. conn' = [conn EXCEPT ![c] = [Written(@, BodyOf(Control("ack"))) EXCEPT !.thread = "reading"]]
      BY <2>3 DEF AckBody
    <3>2. QED BY <2>1, <3>1, WritesGoOn
  <2>4. CASE RefuseResult(c)
    <3>1. conn' = [conn EXCEPT ![c] = [Written(@, HeadOf(Control("error"))) EXCEPT
                                         !.thread = "refusing", !.reading = NoResults]]
      BY <2>4 DEF RefuseResult
    <3>2. QED BY <2>1, <3>1, WritesGoOn
  <2>5. CASE ErrorBody(c)
    <3>1. conn' = [conn EXCEPT ![c] = [Written(@, BodyOf(Control("error"))) EXCEPT !.thread = "reading"]]
      BY <2>5 DEF ErrorBody
    <3>2. QED BY <2>1, <3>1, WritesGoOn
  <2>6. QED BY <1>3, <2>2, <2>3, <2>4, <2>5
<1>4. ASSUME NEW c \in Conn, ReportResult(c)
      PROVE  Wired' /\ ConnectionsGoOn /\ socks' = socks
  <2>1. socks' = socks /\ \E x : conn' = [conn EXCEPT ![c].reading = x]
    BY <1>4 DEF ReportResult
  <2>2. QED BY <2>1, ThreadStays
<1>5. ASSUME NEW c \in Conn, ReadCompletion(c) \/ ProcessStep(c) \/ ProcessEnds(c)
      PROVE  Wired' /\ ConnectionsGoOn /\ socks' = socks
  <2>1. socks' = socks
    BY <1>5 DEF ReadCompletion, ProcessStep, ReadAck, ServeDispatch, IgnoreFrame, LoseStep, ProcessEnds
  <2>2. CASE ReadCompletion(c)
    <3>1. \E x, y : conn' = [conn EXCEPT ![c].reading = x, ![c].up = y]
      BY <2>2 DEF ReadCompletion
    <3>2. QED BY <2>1, <3>1, ThreadStays
  <2>3. CASE IgnoreFrame(c)
    <3>1. \E x : conn' = [conn EXCEPT ![c].down = x]
      BY <2>3 DEF IgnoreFrame
    <3>2. QED BY <2>1, <3>1, ThreadStays
  <2>4. CASE ServeDispatch(c)
    <3>1. \E x, y : conn' = [conn EXCEPT ![c].down = x, ![c].up = y]
      BY <2>4 DEF ServeDispatch
    <3>2. QED BY <2>1, <3>1, ThreadStays
  <2>5. CASE ReadAck(c) \/ LoseStep(c)
    <3>1. \E x, y : conn' = [conn EXCEPT ![c].proc = x, ![c].down = y]
      BY <2>5 DEF ReadAck, LoseStep
    <3>2. QED BY <2>1, <3>1, ThreadStays
  <2>6. CASE ProcessEnds(c)
    <3>1. PICK x, y, z : conn' = [conn EXCEPT ![c].proc = x, ![c].down = y, ![c].up = z]
      BY <2>6 DEF ProcessEnds
    <3>2. QED BY <2>1, <3>1, ThreadStays
  <2>7. QED BY <1>5, <2>2, <2>3, <2>4, <2>5, <2>6 DEF ProcessStep
<1>6. CASE ScheduleStep
  <2>1. socks' = socks
    BY <1>6 DEF ScheduleStep, ScheduleCycle, FindSocket, BuildFrame, WriteHead, WriteBody,
                       WriteFails, DispatchFails
  <2>2. UNCHANGED conn \/ \E piece : conn' = [conn EXCEPT ![sending.conn] = Written(@, piece)]
    BY <1>6 DEF ScheduleStep, ScheduleCycle, FindSocket, BuildFrame, WriteHead, WriteBody,
                       WriteFails, DispatchFails
  <2>3. CASE sending.conn \in Conn
    BY <1>1, <2>1, <2>2, <2>3, WritesGoOn
  <2>4. CASE sending.conn \notin Conn
    <3>1. DOMAIN conn' = Conn /\ \A e \in Conn : conn'[e] = conn[e]
      BY <2>2, <2>4 DEF Wired
    <3>2. Wired' /\ ConnectionsGoOn
      BY <3>1 DEF Wired, ConnectionsGoOn, GoesOn
    <3>3. QED BY <2>1, <3>2
  <2>5. QED BY <2>3, <2>4
<1>7. CASE \/ UNCHANGED allVars \/ Start
           \/ \E k \in Client : SubmitRequest(k) \/ \E r \in Request : SubmitTokens(k, r)
           \/ \E r \in Request : CancelRequest(r)
           \/ RollEpochCall \/ TimePasses
  <2>1. UNCHANGED <<conn, socks>>
    BY <1>7 DEF allVars, netVars, Start, SubmitRequest, SubmitTokens, CancelRequest, RollEpochCall,
                       TimePasses
  <2>2. QED BY <1>1, <2>1
<1>8. QED BY <1>2, <1>3, <1>4, <1>5, <1>6, <1>7 DEF NetNext, ThreadStep

LEMMA BootsKept ==
  ASSUME Wired, [NetNext]_allVars
  PROVE  \A c \in Conn : \/ conn'[c].boot = conn[c].boot
                          \/ (Register(c) /\ conn'[c].boot = ws[WorkerOf[c]].boot + 1)
<1>1. ASSUME NEW c \in Conn, NEW t, conn' = [conn EXCEPT ![c].thread = t]
      PROVE  \A e \in Conn : conn'[e].boot = conn[e].boot
  <2>1. DOMAIN conn = Conn /\ DOMAIN conn[c] = Fields
    BY DEF Wired
  <2>2. conn'[c] = [conn[c] EXCEPT !.thread = t] /\ \A e \in Conn \ {c} : conn'[e] = conn[e]
    BY ONLY <1>1, <2>1, ZenonT(60)
  <2>3. conn'[c].boot = conn[c].boot
    BY ONLY <2>1, <2>2, ZenonT(60) DEF Fields
  <2>4. QED BY <2>2, <2>3
<1>2. ASSUME NEW c \in Conn, StoreSocket(c) \/ ConnectionEnds(c)
      PROVE  \A e \in Conn : conn'[e].boot = conn[e].boot
  <2>1. \E t : conn' = [conn EXCEPT ![c].thread = t]
    BY <1>2 DEF StoreSocket, ConnectionEnds
  <2>2. QED BY <1>1, <2>1
<1>3. ASSUME NEW c \in Conn, Register(c)
      PROVE  conn'[c].boot = ws[WorkerOf[c]].boot + 1 /\ \A e \in Conn \ {c} : conn'[e] = conn[e]
  <2> DEFINE boot == ws[WorkerOf[c]].boot + 1
  <2>1. /\ DOMAIN conn = Conn /\ DOMAIN conn[c] = Fields
        /\ conn' = [conn EXCEPT ![c].thread = "registered", ![c].boot = boot]
    BY <1>3 DEF Wired, Register
  <2> HIDE DEF boot
  <2>2. /\ conn'[c] = [conn[c] EXCEPT !.thread = "registered", !.boot = boot]
        /\ \A e \in Conn \ {c} : conn'[e] = conn[e]
    BY ONLY <2>1, c \in Conn, ZenonT(60)
  <2>3. conn'[c].boot = boot
    BY ONLY <2>1, <2>2, ZenonT(60) DEF Fields
  <2>4. QED BY <2>2, <2>3 DEF boot
<1>4. CASE \A c \in Conn : ~StoreSocket(c) /\ ~Register(c) /\ ~ConnectionEnds(c)
  BY <1>4, ConnectionsQuiet DEF ConnectionsGoOn, GoesOn
<1>5. QED BY <1>2, <1>3, <1>4

-----------------------------------------------------------------------------
(* What is on its way: sequences of pieces and of results.                 *)

IsSequence(s) == s \in Seq(Range(s))

LEMMA OwnSequence ==
  ASSUME NEW S, NEW s \in Seq(S)
  PROVE  IsSequence(s)
<1>1. Len(s) \in Nat /\ DOMAIN s = 1 .. Len(s) /\ s = [i \in 1 .. Len(s) |-> s[i]]
  BY SMTT(20)
<1>2. \A i \in 1 .. Len(s) : s[i] \in Range(s)
  BY <1>1 DEF Range
<1>3. [i \in 1 .. Len(s) |-> s[i]] \in Seq(Range(s))
  BY <1>1, <1>2, SMTT(20)
<1>4. QED BY <1>1, <1>3 DEF IsSequence

LEMMA AppendIsSequence ==
  ASSUME NEW s, IsSequence(s), NEW x
  PROVE  IsSequence(Append(s, x)) /\ Range(Append(s, x)) = Range(s) \cup {x}
<1> DEFINE T == Range(s) \cup {x}
           t == Append(s, x)
<1>1. s \in Seq(T) /\ x \in T /\ DOMAIN s = 1 .. Len(s) /\ Len(s) \in Nat
  BY SMTT(20) DEF IsSequence
<1>2. t \in Seq(T) /\ DOMAIN t = 1 .. Len(s) + 1 /\ t[Len(s) + 1] = x /\ \A i \in 1 .. Len(s) : t[i] = s[i]
  BY <1>1, SMTT(20)
<1>3. Range(t) = T
  <2>1. Range(t) \subseteq T
    BY <1>2, SMTT(20) DEF Range
  <2>2. x \in Range(t)
    BY <1>1, <1>2, SMTT(20) DEF Range
  <2>3. ASSUME NEW i \in 1 .. Len(s)
        PROVE  s[i] \in Range(t)
    BY <1>1, <1>2, SMTT(20) DEF Range
  <2>4. QED BY <1>1, <2>1, <2>2, <2>3 DEF Range
<1>4. QED BY <1>2, <1>3 DEF IsSequence

LEMMA TailIsSequence ==
  ASSUME NEW s, IsSequence(s), s # <<>>
  PROVE  IsSequence(Tail(s)) /\ Range(s) = {Head(s)} \cup Range(Tail(s))
<1> DEFINE t == Tail(s)
<1>1. s \in Seq(Range(s)) /\ DOMAIN s = 1 .. Len(s) /\ Len(s) \in Nat /\ Len(s) >= 1 /\ Head(s) = s[1]
  BY SMTT(20) DEF IsSequence
<1>2. /\ t \in Seq(Range(s)) /\ DOMAIN t = 1 .. Len(s) - 1
      /\ \A i \in 1 .. Len(s) - 1 : t[i] = s[i + 1]
  BY <1>1, SMTT(20)
<1>3. IsSequence(t)
  BY <1>2, OwnSequence
<1>4. Range(t) \subseteq Range(s) /\ s[1] \in Range(s)
  BY <1>1, <1>2, SMTT(20) DEF Range
<1>5. ASSUME NEW i \in 1 .. Len(s)
      PROVE  s[i] \in {s[1]} \cup Range(t)
  <2>1. CASE i # 1
    <3>1. i - 1 \in 1 .. Len(s) - 1 /\ t[i - 1] = s[i]
      BY <1>1, <1>2, <2>1, SMTT(20)
    <3>2. QED BY <1>2, <3>1 DEF Range
  <2>2. QED BY <2>1
<1>6. QED BY <1>1, <1>3, <1>4, <1>5 DEF Range

(* A frame is read: two pieces are gone.                                   *)
LEMMA RestIsSequence ==
  ASSUME NEW s, IsSequence(s), Len(s) >= 2
  PROVE  LET t == SubSeq(s, 3, Len(s)) IN
         IsSequence(t) /\ Range(s) = {s[1], s[2]} \cup Range(t)
<1> DEFINE t == SubSeq(s, 3, Len(s))
<1>1. s \in Seq(Range(s)) /\ DOMAIN s = 1 .. Len(s) /\ Len(s) \in Nat
  BY SMTT(20) DEF IsSequence
<1>2. /\ DOMAIN t = 1 .. Len(s) - 2 /\ \A i \in 1 .. Len(s) - 2 : t[i] = s[i + 2]
      /\ t \in Seq(Range(s))
  BY <1>1, SMTT(20)
<1>3. IsSequence(t)
  BY <1>2, OwnSequence
<1>4. Range(t) \subseteq Range(s) /\ s[1] \in Range(s) /\ s[2] \in Range(s)
  <2>1. 1 \in DOMAIN s /\ 2 \in DOMAIN s /\ \A i \in DOMAIN t : i + 2 \in DOMAIN s
    BY <1>1, <1>2, SMTT(20)
  <2> HIDE DEF t
  <2>2. QED BY <1>2, <2>1 DEF Range
<1>5. ASSUME NEW i \in 1 .. Len(s)
      PROVE  s[i] \in {s[1], s[2]} \cup Range(t)
  <2>1. CASE i > 2
    <3>1. i - 2 \in 1 .. Len(s) - 2 /\ t[i - 2] = s[i]
      BY <1>1, <1>2, <2>1, SMTT(20)
    <3>2. QED BY <1>2, <3>1 DEF Range
  <2>2. CASE i = 1 \/ i = 2
    BY <2>2
  <2>3. QED BY <1>1, <2>1, <2>2, SMTT(20)
<1>6. QED BY <1>1, <1>3, <1>4, <1>5 DEF Range

LEMMA PrefixIsSequence ==
  ASSUME NEW s, IsSequence(s), NEW n \in 0 .. Len(s)
  PROVE  IsSequence(SubSeq(s, 1, n)) /\ Range(SubSeq(s, 1, n)) \subseteq Range(s)
<1> DEFINE t == SubSeq(s, 1, n)
<1>1. s \in Seq(Range(s)) /\ DOMAIN s = 1 .. Len(s) /\ Len(s) \in Nat
  BY SMTT(20) DEF IsSequence
<1>2. DOMAIN t = 1 .. n /\ (\A i \in 1 .. n : t[i] = s[i]) /\ t \in Seq(Range(s))
  BY <1>1, SMTT(20)
<1>3. Range(t) \subseteq Range(s)
  BY <1>1, <1>2, SMTT(20) DEF Range
<1>4. QED BY <1>2, <1>3, OwnSequence

LEMMA EmptyIsSequence == IsSequence(<<>>) /\ Range(<<>>) = {}
BY SMTT(20) DEF IsSequence, Range

(* The fields of a connection.                                             *)
FieldsOf(k, thread, boot, proc, down, up, reading) ==
  /\ DOMAIN k = Fields
  /\ k.thread = thread /\ k.boot = boot /\ k.proc = proc
  /\ k.down = down /\ k.up = up /\ k.reading = reading

(* What a connection carries, and what its parts look like: control frames *)
(* have no members and dispatches have some, an answer has results, and a  *)
(* thread ends only after its process.                                     *)
InPieces(P)  == UNION {Range(p.frame.members) : p \in P}
GensOf(f)    == {f.results[i].gen : i \in DOMAIN f.results}
InAnswers(F) == UNION {GensOf(f) : f \in F}

Load(k) == InPieces(Range(k.down)) \cup InAnswers(Range(k.up)) \cup GensOf(k.reading)

FrameOK(f)  == f.members \in Seq(Nat) /\ (f.kind = "dispatch" <=> f.members # <<>>)
AnswerOK(f) == DOMAIN f = {"epoch", "results"} /\ IsSequence(f.results) /\ f.results # <<>>

Stocked(k) ==
  /\ IsSequence(k.down) /\ \A p \in Range(k.down) : FrameOK(p.frame)
  /\ IsSequence(k.up) /\ \A f \in Range(k.up) : AnswerOK(f)
  /\ k.reading = NoResults \/ AnswerOK(k.reading)
  /\ k.thread \in {"none", "accepted", "stored", "registered", "acking", "reading", "refusing", "closed"}
  /\ k.proc \in {"none", "waiting", "serving", "wedged", "gone"}
  /\ k.proc = "none" <=> k.thread = "none"
  /\ k.thread = "closed" => k.proc = "gone"

LEMMA CarriedIsLoad ==
  ASSUME NEW c, NEW g
  PROVE  Carried(c, g) <=> g \in Load(conn[c])
<1> DEFINE k == conn[c]
<1>1. g \in DispatchesIn(k.down) <=> g \in InPieces(Range(k.down))
  <2>1. Range(k.down) = {k.down[i] : i \in DOMAIN k.down}
    BY DEF Range
  <2>2. QED BY <2>1 DEF DispatchesIn, InPieces
<1>2. \A f : g \in GensOf(f) <=> \E i \in DOMAIN f.results : f.results[i].gen = g
  BY DEF GensOf
<1>3. g \in InAnswers(Range(k.up)) <=> \E f \in Range(k.up) : g \in GensOf(f)
  BY DEF InAnswers
<1>4. QED BY <1>1, <1>2, <1>3 DEF Carried, Load

(* A step takes a connection from k to l: the generations of new may be    *)
(* written to it, and what it does not carry any more was done, is noted   *)
(* in left, or ended with the process, which its thread has yet to notice. *)
Passes(k, l, new, done) ==
  /\ Stocked(l) /\ Load(l) \subseteq Load(k) \cup new
  /\ l.thread = "none" => k.thread = "none"
  /\ l.thread = "closed" => k.thread = "closed"
  /\ k.proc = "gone" => l.proc = "gone"
  /\ \/ l.proc = "gone" /\ l.thread # "closed"
     \/ \A g \in Load(k) \ done : g \in Load(l) \/ LeftBehind(g)'

LEMMA NothingPasses ==
  ASSUME NEW k, Stocked(k), NEW new
  PROVE  Passes(k, k, new, {})
BY DEF Passes

(* The thread goes on, or the process connects.                            *)
LEMMA ThreadPasses ==
  ASSUME NEW k, Stocked(k), NEW l, NEW t, NEW b, NEW p,
         FieldsOf(l, t, b, p, k.down, k.up, k.reading),
         t \in {"accepted", "stored", "registered", "acking", "reading", "refusing"},
         k.thread # "closed",
         \/ p = k.proc /\ k.thread # "none"
         \/ p = "waiting" /\ k.thread = "none"
  PROVE  Passes(k, l, {}, {})
<1>1. Load(l) = Load(k)
  BY DEF FieldsOf, Load
<1>2. l.thread = t /\ l.proc = p /\ Stocked(l)
  BY DEF FieldsOf, Stocked
<1>3. k.thread = "none" => k.proc # "gone"
  BY DEF Stocked
<1>4. QED BY <1>1, <1>2, <1>3 DEF Passes

LEMMA WritePasses ==
  ASSUME NEW k, DOMAIN k = Fields, Stocked(k), NEW part, NEW f, FrameOK(f)
  PROVE  LET l == Written(k, [part |-> part, frame |-> f]) IN
         /\ Passes(k, l, Range(f.members), {})
         /\ DOMAIN l = Fields /\ l.boot = k.boot /\ l.thread = k.thread /\ l.proc = k.proc
         /\ l.up = k.up /\ l.reading = k.reading
         /\ k.proc \in {"waiting", "serving"} => Range(f.members) \subseteq Load(l)
<1> DEFINE x == [part |-> part, frame |-> f]
           l == Written(k, x)
           d == Append(k.down, x)
<1>1. CASE k.proc \in {"waiting", "serving"}
  <2>1. l = [k EXCEPT !.down = d]
    BY <1>1 DEF Written
  <2>2. IsSequence(d) /\ Range(d) = Range(k.down) \cup {x}
    BY AppendIsSequence DEF Stocked
  <2>3. x.frame = f
    OBVIOUS
  <2> HIDE DEF d, x, l
  <2>4. FieldsOf(l, k.thread, k.boot, k.proc, d, k.up, k.reading)
    BY ONLY DOMAIN k = Fields, <2>1, ZenonT(60) DEF FieldsOf, Fields
  <2>5. Load(l) = Load(k) \cup Range(f.members)
    BY <2>2, <2>3, <2>4 DEF FieldsOf, Load, InPieces
  <2>6. Stocked(l)
    BY <2>2, <2>3, <2>4 DEF FieldsOf, Stocked
  <2>7. l.thread = k.thread /\ l.proc = k.proc
    BY <2>4 DEF FieldsOf
  <2>8. Passes(k, l, Range(f.members), {})
    BY <2>5, <2>6, <2>7 DEF Passes
  <2>9. QED BY <2>4, <2>5, <2>8 DEF FieldsOf, l, x
<1>2. CASE k.proc \notin {"waiting", "serving"}
  <2>1. l = k
    BY <1>2 DEF Written
  <2> HIDE DEF l
  <2>2. Passes(k, k, Range(f.members), {})
    BY NothingPasses
  <2>3. QED BY <1>2, <2>1, <2>2 DEF l, x
<1>3. QED BY <1>1, <1>2

(* The thread reads an answer, reports one of its results, refuses one.    *)
LEMMA ReadPasses ==
  ASSUME NEW k, Stocked(k), k.reading = NoResults, k.up # <<>>, NEW l,
         FieldsOf(l, k.thread, k.boot, k.proc, k.down, Tail(k.up), Head(k.up))
  PROVE  Passes(k, l, {}, {})
<1>1. IsSequence(Tail(k.up)) /\ Range(k.up) = {Head(k.up)} \cup Range(Tail(k.up))
  BY TailIsSequence DEF Stocked
<1>2. GensOf(NoResults) = {}
  BY SMTT(20) DEF GensOf, NoResults
<1>3. Load(l) = Load(k)
  BY <1>1, <1>2 DEF FieldsOf, Load, InAnswers
<1>4. Stocked(l)
  BY <1>1 DEF FieldsOf, Stocked
<1>5. QED BY <1>3, <1>4 DEF FieldsOf, Passes

LEMMA ReportPasses ==
  ASSUME NEW k, Stocked(k), k.reading # NoResults, NEW l,
         FieldsOf(l, k.thread, k.boot, k.proc, k.down, k.up,
                  AfterResults(k.reading, Tail(k.reading.results)))
  PROVE  Passes(k, l, {}, {Head(k.reading.results).gen})
<1> DEFINE f == k.reading
           s == f.results
           rest == Tail(s)
           e == AfterResults(f, rest)
<1>1. IsSequence(s) /\ s # <<>> /\ DOMAIN f = {"epoch", "results"}
  BY DEF Stocked, AnswerOK
<1>2. IsSequence(rest) /\ Range(s) = {Head(s)} \cup Range(rest)
  BY <1>1, TailIsSequence
<1>3. GensOf(f) = {x.gen : x \in Range(s)}
  BY DEF GensOf, Range
<1>4. GensOf(e) = {x.gen : x \in Range(rest)} /\ (e = NoResults \/ AnswerOK(e))
  <2>1. CASE rest = <<>>
    <3>1. e = NoResults /\ Range(rest) = {}
      BY <2>1, EmptyIsSequence DEF AfterResults
    <3>2. QED BY <3>1, SMTT(20) DEF GensOf, NoResults
  <2>2. CASE rest # <<>>
    <3>1. e = [f EXCEPT !.results = rest]
      BY <2>2 DEF AfterResults
    <3> HIDE DEF e, f, s, rest
    <3>2. e.results = rest /\ DOMAIN e = {"epoch", "results"}
      BY ONLY <1>1, <3>1, ZenonT(60)
    <3>3. QED BY <1>2, <2>2, <3>2, SMTT(20) DEF GensOf, AnswerOK, Range
  <2>3. QED BY <2>1, <2>2
<1>5. GensOf(e) \subseteq GensOf(f) /\ GensOf(f) \subseteq GensOf(e) \cup {Head(s).gen}
  BY <1>2, <1>3, <1>4
<1> HIDE DEF e, f
<1>6. l.reading = e /\ k.reading = f
  BY DEF FieldsOf, e, f
<1>7. Load(l) \subseteq Load(k) /\ Load(k) \subseteq Load(l) \cup {Head(s).gen}
  BY <1>5, <1>6 DEF FieldsOf, Load
<1>8. Stocked(l)
  BY <1>4, <1>6 DEF FieldsOf, Stocked
<1>9. QED BY <1>7, <1>8 DEF FieldsOf, Passes, f

LEMMA RefusePasses ==
  ASSUME NEW k, Stocked(k), k.thread = "reading", NEW l,
         FieldsOf(l, "refusing", k.boot, k.proc, k.down, k.up, NoResults),
         \A g \in GensOf(k.reading) : LeftBehind(g)'
  PROVE  Passes(k, l, {}, {})
<1>1. GensOf(NoResults) = {}
  BY SMTT(20) DEF GensOf, NoResults
<1>2. Load(l) \subseteq Load(k) /\ Load(k) \subseteq Load(l) \cup GensOf(k.reading)
  BY <1>1 DEF FieldsOf, Load
<1>3. Stocked(l)
  BY DEF FieldsOf, Stocked
<1>4. QED BY <1>2, <1>3 DEF FieldsOf, Passes

(* The process reads a whole frame.                                        *)
LEMMA FrameRead ==
  ASSUME NEW k, Stocked(k), Whole(k.down)
  PROVE  LET rest == SubSeq(k.down, 3, Len(k.down)) IN
         /\ IsSequence(rest) /\ Range(rest) \subseteq Range(k.down)
         /\ FrameOK(k.down[1].frame) /\ Head(k.down) = k.down[1]
         /\ InPieces(Range(k.down)) = Range(k.down[1].frame.members) \cup InPieces(Range(rest))
<1> DEFINE s == k.down
           rest == SubSeq(s, 3, Len(s))
           f == s[1].frame
<1>1. Len(s) >= 2 /\ s[2] = BodyOf(f) /\ IsSequence(s)
  BY DEF Whole, Stocked
<1>2. IsSequence(rest) /\ Range(s) = {s[1], s[2]} \cup Range(rest)
  BY <1>1, RestIsSequence
<1>3. s[2].frame = f
  BY <1>1, SMTT(20) DEF BodyOf
<1>4. FrameOK(f)
  BY <1>2 DEF Stocked
<1>5. Head(s) = s[1]
  BY <1>1, SMTT(20) DEF IsSequence
<1> HIDE DEF rest
<1>6. InPieces(Range(s)) = Range(f.members) \cup InPieces(Range(rest))
  BY <1>2, <1>3 DEF InPieces
<1>7. QED BY <1>2, <1>4, <1>5, <1>6 DEF rest

LEMMA AckPasses ==
  ASSUME NEW k, Stocked(k), k.proc = "waiting", Whole(k.down), NEW l,
         FieldsOf(l, k.thread, k.boot, "serving", SubSeq(k.down, 3, Len(k.down)), k.up, k.reading),
         \A g \in Range(k.down[1].frame.members) : LeftBehind(g)'
  PROVE  Passes(k, l, {}, {})
<1> DEFINE rest == SubSeq(k.down, 3, Len(k.down))
<1>1. /\ IsSequence(rest) /\ Range(rest) \subseteq Range(k.down)
      /\ InPieces(Range(k.down)) = Range(k.down[1].frame.members) \cup InPieces(Range(rest))
  BY FrameRead
<1> HIDE DEF rest
<1>2. FieldsOf(l, k.thread, k.boot, "serving", rest, k.up, k.reading)
  BY DEF rest
<1>3. /\ Load(l) \subseteq Load(k)
      /\ Load(k) \subseteq Load(l) \cup Range(k.down[1].frame.members)
  BY <1>1, <1>2 DEF FieldsOf, Load
<1>4. Stocked(l)
  BY <1>1, <1>2 DEF FieldsOf, Stocked
<1>5. l.thread = k.thread /\ k.proc # "gone"
  BY <1>2 DEF FieldsOf
<1>6. QED BY <1>3, <1>4, <1>5 DEF Passes

LEMMA IgnorePasses ==
  ASSUME NEW k, Stocked(k), Whole(k.down), Head(k.down).frame.kind # "dispatch", NEW l,
         FieldsOf(l, k.thread, k.boot, k.proc, SubSeq(k.down, 3, Len(k.down)), k.up, k.reading)
  PROVE  Passes(k, l, {}, {})
<1> DEFINE rest == SubSeq(k.down, 3, Len(k.down))
           f == k.down[1].frame
<1>1. /\ IsSequence(rest) /\ Range(rest) \subseteq Range(k.down)
      /\ FrameOK(f) /\ Head(k.down) = k.down[1]
      /\ InPieces(Range(k.down)) = Range(f.members) \cup InPieces(Range(rest))
  BY FrameRead
<1>2. Range(f.members) = {}
  BY <1>1, EmptyIsSequence DEF FrameOK
<1> HIDE DEF rest
<1>3. FieldsOf(l, k.thread, k.boot, k.proc, rest, k.up, k.reading)
  BY DEF rest
<1>4. Load(l) = Load(k)
  BY <1>1, <1>2, <1>3 DEF FieldsOf, Load
<1>5. Stocked(l)
  BY <1>1, <1>3 DEF FieldsOf, Stocked
<1>6. l.thread = k.thread /\ l.proc = k.proc
  BY <1>3 DEF FieldsOf
<1>7. QED BY <1>4, <1>5, <1>6 DEF Passes

(* Whatever the executor, every member of the group has a result.          *)
LEMMA ResultsOfMembers ==
  ASSUME NEW f, FrameOK(f), f.kind = "dispatch",
         NEW results \in (IF DeviceFaults THEN CudaResults(f) ELSE {CpuResults(f)})
  PROVE  LET a == [epoch |-> f.epoch, results |-> results] IN
         AnswerOK(a) /\ GensOf(a) = Range(f.members)
<1> DEFINE n == Len(f.members)
           a == [epoch |-> f.epoch, results |-> results]
<1>1. n \in Nat /\ DOMAIN f.members = 1 .. n /\ n # 0
  BY SMTT(20) DEF FrameOK
<1>2. /\ DOMAIN results = DOMAIN f.members
      /\ results = [i \in DOMAIN f.members |-> results[i]]
      /\ \A i \in DOMAIN f.members : results[i].gen = f.members[i]
  <2>1. \A i \in DOMAIN f.members : Executed(f, i).gen = f.members[i]
    BY DEF Executed
  <2>2. CASE results = CpuResults(f)
    BY <2>1, <2>2 DEF CpuResults
  <2>3. CASE results = GroupFailed(f)
    BY <2>3 DEF GroupFailed
  <2>4. ASSUME NEW faults \in SUBSET DOMAIN f.members,
               results = [i \in DOMAIN f.members |->
                            IF i \in faults THEN [Executed(f, i) EXCEPT !.outcome = "non_retryable_failure"]
                                            ELSE Executed(f, i)]
        PROVE  /\ DOMAIN results = DOMAIN f.members
               /\ results = [i \in DOMAIN f.members |-> results[i]]
               /\ \A i \in DOMAIN f.members : results[i].gen = f.members[i]
    <3>1. \A i \in DOMAIN f.members :
            [Executed(f, i) EXCEPT !.outcome = "non_retryable_failure"].gen = f.members[i]
      BY DEF Executed
    <3>2. QED BY <2>1, <2>4, <3>1
  <2>5. QED BY <2>2, <2>3, <2>4 DEF CudaResults
<1>3. \A i \in 1 .. n : results[i] \in Range(results)
  BY <1>1, <1>2 DEF Range
<1>4. [i \in 1 .. n |-> results[i]] \in Seq(Range(results))
  BY <1>1, <1>3, SMTT(20)
<1>5. IsSequence(results)
  BY <1>1, <1>2, <1>4 DEF IsSequence
<1>6. results # <<>>
  BY <1>1, <1>2, SMTT(20)
<1>7. a.results = results /\ DOMAIN a = {"epoch", "results"}
  OBVIOUS
<1>8. {results[i].gen : i \in DOMAIN results} = {f.members[i] : i \in DOMAIN f.members}
  BY ONLY <1>2, ZenonT(60)
<1>9. GensOf(a) = Range(f.members)
  BY <1>7, <1>8 DEF GensOf, Range
<1>10. QED BY <1>5, <1>6, <1>7, <1>9 DEF AnswerOK

LEMMA ServePasses ==
  ASSUME NEW k, Stocked(k), Whole(k.down), NEW f, f = Head(k.down).frame, f.kind = "dispatch",
         NEW a, AnswerOK(a), GensOf(a) = Range(f.members), NEW l,
         FieldsOf(l, k.thread, k.boot, k.proc, SubSeq(k.down, 3, Len(k.down)), Append(k.up, a), k.reading)
  PROVE  Passes(k, l, {}, {})
<1> DEFINE rest == SubSeq(k.down, 3, Len(k.down))
           more == Append(k.up, a)
<1>1. /\ IsSequence(rest) /\ Range(rest) \subseteq Range(k.down)
      /\ Head(k.down) = k.down[1]
      /\ InPieces(Range(k.down)) = Range(k.down[1].frame.members) \cup InPieces(Range(rest))
  BY FrameRead
<1>2. IsSequence(more) /\ Range(more) = Range(k.up) \cup {a}
  BY AppendIsSequence DEF Stocked
<1> HIDE DEF rest, more
<1>3. FieldsOf(l, k.thread, k.boot, k.proc, rest, more, k.reading)
  BY DEF rest, more
<1>4. InAnswers(Range(more)) = InAnswers(Range(k.up)) \cup Range(f.members)
  BY <1>2 DEF InAnswers
<1>5. Load(l) = Load(k)
  BY <1>1, <1>3, <1>4 DEF FieldsOf, Load
<1>6. Stocked(l)
  BY <1>1, <1>2, <1>3 DEF FieldsOf, Stocked
<1>7. l.thread = k.thread /\ l.proc = k.proc
  BY <1>3 DEF FieldsOf
<1>8. QED BY <1>5, <1>6, <1>7 DEF Passes

(* The process loses its place in the stream for good, or ends.            *)
LEMMA LosePasses ==
  ASSUME NEW k, Stocked(k), k.proc \in {"waiting", "serving"}, NEW l,
         FieldsOf(l, k.thread, k.boot, "wedged", <<>>, k.up, k.reading),
         \A g \in DispatchesIn(k.down) : LeftBehind(g)'
  PROVE  Passes(k, l, {}, {})
<1>1. InPieces(Range(<<>>)) = {} /\ IsSequence(<<>>) /\ Range(<<>>) = {}
  BY EmptyIsSequence DEF InPieces
<1>2. DispatchesIn(k.down) = InPieces(Range(k.down))
  BY SMTT(20) DEF DispatchesIn, InPieces, Range
<1>3. Load(l) \subseteq Load(k) /\ Load(k) \subseteq Load(l) \cup DispatchesIn(k.down)
  BY <1>1, <1>2 DEF FieldsOf, Load
<1>4. Stocked(l)
  BY <1>1 DEF FieldsOf, Stocked
<1>5. QED BY <1>3, <1>4 DEF FieldsOf, Passes

LEMMA EndPasses ==
  ASSUME NEW k, Stocked(k), k.proc \in {"waiting", "serving", "wedged"}, NEW l,
         NEW up, IsSequence(up), Range(up) \subseteq Range(k.up),
         FieldsOf(l, k.thread, k.boot, "gone", <<>>, up, k.reading)
  PROVE  Passes(k, l, {}, {})
<1>1. InPieces(Range(<<>>)) = {} /\ IsSequence(<<>>) /\ Range(<<>>) = {}
  BY EmptyIsSequence DEF InPieces
<1>2. Load(l) \subseteq Load(k)
  BY <1>1 DEF FieldsOf, Load, InAnswers
<1>3. Stocked(l)
  BY <1>1 DEF FieldsOf, Stocked
<1>4. l.proc = "gone" /\ l.thread = k.thread /\ k.thread # "closed"
  BY DEF FieldsOf, Stocked
<1>5. QED BY <1>2, <1>3, <1>4 DEF Passes

(* So one connection flows, and the others stand still.                    *)
FlowsAt(c, new, done) ==
  /\ \A e \in Conn \ {c} : conn'[e] = conn[e]
  /\ Passes(conn[c], conn'[c], new, done)

AllStocked == Wired /\ \A c \in Conn : Stocked(conn[c])

LEMMA ControlFrames ==
  ASSUME NEW kind \in {"none", "ack", "error"}
  PROVE  FrameOK(Control(kind)) /\ Range(Control(kind).members) = {}
<1>1. Control(kind).members = <<>> /\ Control(kind).kind = kind
  BY DEF Control
<1>2. QED BY <1>1, EmptyIsSequence, SMTT(20) DEF FrameOK

LEMMA ThreadFlows ==
  ASSUME AllStocked, NEW c \in Conn,
         Connect(c) \/ StoreSocket(c) \/ Register(c)
  PROVE  FlowsAt(c, {}, {})
<1> DEFINE k == conn[c]
<1>1. DOMAIN conn = Conn /\ DOMAIN k = Fields /\ Stocked(k)
  BY DEF AllStocked, Wired
<1>2. CASE Connect(c)
  <2>1. k.thread = "none" /\ conn' = [conn EXCEPT ![c].thread = "accepted", ![c].proc = "waiting"]
    BY <1>2 DEF Connect
  <2>2. /\ \A e \in Conn \ {c} : conn'[e] = conn[e]
        /\ conn'[c] = [k EXCEPT !.thread = "accepted", !.proc = "waiting"]
    BY ONLY <1>1, <2>1, ZenonT(60)
  <2> HIDE DEF k
  <2>3. FieldsOf(conn'[c], "accepted", k.boot, "waiting", k.down, k.up, k.reading)
    BY ONLY <1>1, <2>2, ZenonT(60) DEF FieldsOf, Fields
  <2>4. QED BY <1>1, <2>1, <2>2, <2>3, ThreadPasses DEF FlowsAt, k
<1>3. CASE StoreSocket(c)
  <2>1. k.thread = "accepted" /\ conn' = [conn EXCEPT ![c].thread = "stored"]
    BY <1>3 DEF StoreSocket
  <2>2. /\ \A e \in Conn \ {c} : conn'[e] = conn[e]
        /\ conn'[c] = [k EXCEPT !.thread = "stored"]
    BY ONLY <1>1, <2>1, ZenonT(60)
  <2> HIDE DEF k
  <2>3. FieldsOf(conn'[c], "stored", k.boot, k.proc, k.down, k.up, k.reading)
    BY ONLY <1>1, <2>2, ZenonT(60) DEF FieldsOf, Fields
  <2>4. QED BY <1>1, <2>1, <2>2, <2>3, ThreadPasses DEF FlowsAt, k
<1>4. CASE Register(c)
  <2> DEFINE boot == ws[WorkerOf[c]].boot + 1
  <2>1. k.thread = "stored" /\ conn' = [conn EXCEPT ![c].thread = "registered", ![c].boot = boot]
    BY <1>4 DEF Register
  <2> HIDE DEF boot
  <2>2. /\ \A e \in Conn \ {c} : conn'[e] = conn[e]
        /\ conn'[c] = [k EXCEPT !.thread = "registered", !.boot = boot]
    BY ONLY <1>1, <2>1, ZenonT(60)
  <2> HIDE DEF k
  <2>3. FieldsOf(conn'[c], "registered", boot, k.proc, k.down, k.up, k.reading)
    BY ONLY <1>1, <2>2, ZenonT(60) DEF FieldsOf, Fields
  <2>4. QED BY <1>1, <2>1, <2>2, <2>3, ThreadPasses DEF FlowsAt, k
<1>5. QED BY <1>2, <1>3, <1>4

(* Writing a control frame, and going on with something else.              *)
LEMMA PassesOn ==
  ASSUME NEW k, NEW l, NEW m, Passes(k, l, {}, {}), Passes(l, m, {}, {})
  PROVE  Passes(k, m, {}, {})
BY DEF Passes

Running == {"accepted", "stored", "registered", "acking", "reading", "refusing"}

LEMMA ControlPasses ==
  ASSUME NEW k, DOMAIN k = Fields, Stocked(k), k.thread \in Running,
         NEW part, NEW kind \in {"ack", "error"}, NEW t \in Running, NEW l,
         l = [Written(k, [part |-> part, frame |-> Control(kind)]) EXCEPT !.thread = t]
  PROVE  Passes(k, l, {}, {})
<1> DEFINE x == Written(k, [part |-> part, frame |-> Control(kind)])
<1>1. /\ Passes(k, x, Range(Control(kind).members), {}) /\ DOMAIN x = Fields
      /\ x.thread = k.thread
  BY ControlFrames, WritePasses
<1>2. Passes(k, x, {}, {})
  BY <1>1, ControlFrames
<1>3. l = [x EXCEPT !.thread = t]
  OBVIOUS
<1> HIDE DEF x
<1>4. FieldsOf(l, t, x.boot, x.proc, x.down, x.up, x.reading)
  BY ONLY <1>1, <1>3, ZenonT(60) DEF FieldsOf, Fields
<1>5. Stocked(x) /\ x.thread \notin {"none", "closed"}
  BY <1>1, <1>2 DEF Passes, Running
<1>6. Passes(x, l, {}, {})
  BY <1>4, <1>5, ThreadPasses DEF Running
<1>7. QED BY <1>2, <1>6, PassesOn

LEMMA RefusalPasses ==
  ASSUME NEW k, DOMAIN k = Fields, Stocked(k), k.thread = "reading",
         \A g \in GensOf(k.reading) : LeftBehind(g)', NEW l,
         l = [Written(k, HeadOf(Control("error"))) EXCEPT !.thread = "refusing", !.reading = NoResults]
  PROVE  Passes(k, l, {}, {})
<1> DEFINE x == Written(k, HeadOf(Control("error")))
<1>1. /\ Passes(k, x, Range(Control("error").members), {}) /\ DOMAIN x = Fields
      /\ x.thread = k.thread /\ x.reading = k.reading
  BY ControlFrames, WritePasses DEF HeadOf
<1>2. Passes(k, x, {}, {})
  BY <1>1, ControlFrames
<1>3. l = [x EXCEPT !.thread = "refusing", !.reading = NoResults]
  OBVIOUS
<1> HIDE DEF x
<1>4. FieldsOf(l, "refusing", x.boot, x.proc, x.down, x.up, NoResults)
  BY ONLY <1>1, <1>3, ZenonT(60) DEF FieldsOf, Fields
<1>5. Stocked(x)
  BY <1>2 DEF Passes
<1>6. Passes(x, l, {}, {})
  BY <1>1, <1>4, <1>5, RefusePasses
<1>7. QED BY <1>2, <1>6, PassesOn

(* One connection is given a new record.                                   *)
LEMMA OneChanges ==
  ASSUME AllStocked, NEW c \in Conn, NEW l, conn' = [conn EXCEPT ![c] = l]
  PROVE  /\ DOMAIN conn[c] = Fields /\ Stocked(conn[c])
         /\ conn'[c] = l /\ \A e \in Conn \ {c} : conn'[e] = conn[e]
BY DEF AllStocked, Wired

LEMMA ControlFlows ==
  ASSUME AllStocked, NEW c \in Conn, AckHead(c) \/ AckBody(c) \/ ErrorBody(c)
  PROVE  FlowsAt(c, {}, {})
<1> DEFINE k == conn[c]
<1>1. ASSUME NEW part, NEW kind \in {"ack", "error"}, NEW t \in Running, k.thread \in Running,
             conn' = [conn EXCEPT ![c] =
                        [Written(k, [part |-> part, frame |-> Control(kind)]) EXCEPT !.thread = t]]
      PROVE  FlowsAt(c, {}, {})
  <2> DEFINE l == [Written(k, [part |-> part, frame |-> Control(kind)]) EXCEPT !.thread = t]
  <2>1. /\ DOMAIN k = Fields /\ Stocked(k) /\ conn'[c] = l
        /\ \A e \in Conn \ {c} : conn'[e] = conn[e]
    BY <1>1, OneChanges
  <2>2. Passes(k, l, {}, {})
    BY <1>1, <2>1, ControlPasses
  <2>3. QED BY <2>1, <2>2 DEF FlowsAt
<1>2. CASE AckHead(c)
  BY <1>1, <1>2 DEF AckHead, HeadOf, Running
<1>3. CASE AckBody(c)
  BY <1>1, <1>3 DEF AckBody, BodyOf, Running
<1>4. CASE ErrorBody(c)
  BY <1>1, <1>4 DEF ErrorBody, BodyOf, Running
<1>5. QED BY <1>2, <1>3, <1>4

LEMMA ReadFlows ==
  ASSUME AllStocked, NEW c \in Conn, ReadCompletion(c)
  PROVE  FlowsAt(c, {}, {})
<1> DEFINE k == conn[c]
           x == Head(k.up)
           y == Tail(k.up)
<1>1. k.reading = NoResults /\ k.up # <<>> /\ conn' = [conn EXCEPT ![c].reading = x, ![c].up = y]
  BY DEF ReadCompletion
<1> HIDE DEF x, y
<1>2. DOMAIN conn = Conn /\ DOMAIN k = Fields /\ Stocked(k)
  BY DEF AllStocked, Wired
<1>3. /\ \A e \in Conn \ {c} : conn'[e] = conn[e]
      /\ conn'[c] = [k EXCEPT !.reading = x, !.up = y]
  BY ONLY <1>1, <1>2, ZenonT(60)
<1> HIDE DEF k
<1>4. FieldsOf(conn'[c], k.thread, k.boot, k.proc, k.down, y, x)
  BY ONLY <1>2, <1>3, ZenonT(60) DEF FieldsOf, Fields
<1>5. QED BY <1>1, <1>2, <1>3, <1>4, ReadPasses DEF FlowsAt, k, x, y

LEMMA ReportFlows ==
  ASSUME AllStocked, NEW c \in Conn, ReportResult(c)
  PROVE  FlowsAt(c, {}, {Current(c).gen})
<1> DEFINE k == conn[c]
           x == AfterResults(k.reading, Tail(k.reading.results))
<1>1. k.reading # NoResults /\ conn' = [conn EXCEPT ![c].reading = x]
  BY DEF ReportResult
<1> HIDE DEF x
<1>2. DOMAIN conn = Conn /\ DOMAIN k = Fields /\ Stocked(k)
  BY DEF AllStocked, Wired
<1>3. /\ \A e \in Conn \ {c} : conn'[e] = conn[e]
      /\ conn'[c] = [k EXCEPT !.reading = x]
  BY ONLY <1>1, <1>2, ZenonT(60)
<1> HIDE DEF k
<1>4. FieldsOf(conn'[c], k.thread, k.boot, k.proc, k.down, k.up, x)
  BY ONLY <1>2, <1>3, ZenonT(60) DEF FieldsOf, Fields
<1>5. QED BY <1>1, <1>2, <1>3, <1>4, ReportPasses DEF FlowsAt, k, x, Current

LEMMA RefuseFlows ==
  ASSUME AllStocked, NEW c \in Conn, RefuseResult(c)
  PROVE  FlowsAt(c, {}, {})
<1> DEFINE k == conn[c]
           l == [Written(k, HeadOf(Control("error"))) EXCEPT !.thread = "refusing", !.reading = NoResults]
           s == k.reading.results
<1>1. /\ k.thread = "reading" /\ k.reading # NoResults /\ conn' = [conn EXCEPT ![c] = l]
      /\ left' = left \cup {[gen |-> Current(c).gen, how |-> "refused"]}
                      \cup {[gen |-> s[i].gen, how |-> "dropped"] : i \in 2 .. Len(s)}
  BY DEF RefuseResult
<1> HIDE DEF l
<1>2. /\ DOMAIN k = Fields /\ Stocked(k) /\ conn'[c] = l
      /\ \A e \in Conn \ {c} : conn'[e] = conn[e]
  BY <1>1, OneChanges
<1>3. IsSequence(s) /\ s # <<>>
  BY <1>1, <1>2 DEF Stocked, AnswerOK
<1>4. DOMAIN s = 1 .. Len(s) /\ Len(s) \in Nat /\ Head(s) = s[1]
  BY <1>3, SMTT(20) DEF IsSequence
<1>5. ASSUME NEW i \in DOMAIN s, NEW g, g = s[i].gen
      PROVE  LeftBehind(g)'
  <2>1. CASE i = 1
    <3>1. [gen |-> g, how |-> "refused"] \in left'
      BY <1>1, <1>4, <1>5, <2>1 DEF Current
    <3>2. QED BY <3>1 DEF LeftBehind
  <2>2. CASE i # 1
    <3>1. i \in 2 .. Len(s)
      BY <1>4, <2>2, SMTT(20)
    <3>2. [gen |-> g, how |-> "dropped"] \in left'
      BY <1>1, <1>5, <3>1
    <3>3. QED BY <3>2 DEF LeftBehind
  <2>3. QED BY <2>1, <2>2
<1>6. \A g \in GensOf(k.reading) : LeftBehind(g)'
  BY <1>5 DEF GensOf
<1>7. QED BY <1>1, <1>2, <1>6, RefusalPasses DEF FlowsAt, l

(* The process reads the ack, serves, ignores, loses its step, ends.       *)
LEMMA AckFlows ==
  ASSUME AllStocked, NEW c \in Conn, ReadAck(c)
  PROVE  FlowsAt(c, {}, {})
<1> DEFINE k == conn[c]
           rest == SubSeq(k.down, 3, Len(k.down))
           read == Range(k.down[1].frame.members)
<1>1. /\ k.proc = "waiting" /\ Whole(k.down)
      /\ conn' = [conn EXCEPT ![c].proc = "serving", ![c].down = rest]
      /\ left' = left \cup {[gen |-> g, how |-> "as_ack"] : g \in read}
  BY DEF ReadAck
<1>2. DOMAIN conn = Conn /\ DOMAIN k = Fields /\ Stocked(k)
  BY DEF AllStocked, Wired
<1> HIDE DEF rest
<1>3. /\ \A e \in Conn \ {c} : conn'[e] = conn[e]
      /\ conn'[c] = [k EXCEPT !.proc = "serving", !.down = rest]
  BY ONLY <1>1, <1>2, ZenonT(60)
<1> HIDE DEF k
<1>4. FieldsOf(conn'[c], k.thread, k.boot, "serving", rest, k.up, k.reading)
  BY ONLY <1>2, <1>3, ZenonT(60) DEF FieldsOf, Fields
<1>5. ASSUME NEW g \in read PROVE LeftBehind(g)'
  <2>1. [gen |-> g, how |-> "as_ack"] \in left'
    BY <1>1
  <2>2. QED BY <2>1 DEF LeftBehind
<1>6. QED BY <1>1, <1>2, <1>3, <1>4, <1>5, AckPasses DEF FlowsAt, k, rest

LEMMA ServeFlows ==
  ASSUME AllStocked, NEW c \in Conn, ServeDispatch(c)
  PROVE  FlowsAt(c, {}, {})
<1> DEFINE k == conn[c]
           f == Head(k.down).frame
           rest == SubSeq(k.down, 3, Len(k.down))
<1>1. PICK results \in IF DeviceFaults THEN CudaResults(f) ELSE {CpuResults(f)} :
        conn' = [conn EXCEPT ![c].down = rest, ![c].up = Append(k.up, [epoch |-> f.epoch, results |-> results])]
  BY DEF ServeDispatch
<1>2. Whole(k.down) /\ f.kind = "dispatch"
  BY DEF ServeDispatch
<1>3. DOMAIN conn = Conn /\ DOMAIN k = Fields /\ Stocked(k)
  BY DEF AllStocked, Wired
<1> DEFINE a == [epoch |-> f.epoch, results |-> results]
           more == Append(k.up, a)
<1>4. FrameOK(f)
  BY <1>2, <1>3, FrameRead
<1>5. AnswerOK(a) /\ GensOf(a) = Range(f.members)
  BY <1>1, <1>2, <1>4, ResultsOfMembers
<1>6. conn' = [conn EXCEPT ![c].down = rest, ![c].up = more]
  BY <1>1
<1> HIDE DEF rest, more
<1>7. /\ \A e \in Conn \ {c} : conn'[e] = conn[e]
      /\ conn'[c] = [k EXCEPT !.down = rest, !.up = more]
  BY ONLY <1>3, <1>6, ZenonT(60)
<1> HIDE DEF k
<1>8. FieldsOf(conn'[c], k.thread, k.boot, k.proc, rest, more, k.reading)
  BY ONLY <1>3, <1>7, ZenonT(60) DEF FieldsOf, Fields
<1> HIDE DEF a
<1>9. Passes(k, conn'[c], {}, {})
  BY <1>2, <1>3, <1>5, <1>8, ServePasses DEF rest, more
<1>10. QED BY <1>7, <1>9 DEF FlowsAt, k

LEMMA IgnoreFlows ==
  ASSUME AllStocked, NEW c \in Conn, IgnoreFrame(c)
  PROVE  FlowsAt(c, {}, {})
<1> DEFINE k == conn[c]
           rest == SubSeq(k.down, 3, Len(k.down))
<1>1. /\ Whole(k.down) /\ Head(k.down).frame.kind # "dispatch"
      /\ conn' = [conn EXCEPT ![c].down = rest]
  BY DEF IgnoreFrame
<1>2. DOMAIN conn = Conn /\ DOMAIN k = Fields /\ Stocked(k)
  BY DEF AllStocked, Wired
<1> HIDE DEF rest
<1>3. /\ \A e \in Conn \ {c} : conn'[e] = conn[e]
      /\ conn'[c] = [k EXCEPT !.down = rest]
  BY ONLY <1>1, <1>2, ZenonT(60)
<1> HIDE DEF k
<1>4. FieldsOf(conn'[c], k.thread, k.boot, k.proc, rest, k.up, k.reading)
  BY ONLY <1>2, <1>3, ZenonT(60) DEF FieldsOf, Fields
<1>5. QED BY <1>1, <1>2, <1>3, <1>4, IgnorePasses DEF FlowsAt, k, rest

LEMMA LoseFlows ==
  ASSUME AllStocked, NEW c \in Conn, LoseStep(c)
  PROVE  FlowsAt(c, {}, {})
<1> DEFINE k == conn[c]
<1>1. k.proc \in {"waiting", "serving"}
  BY DEF LoseStep
<1>2. DOMAIN conn = Conn /\ DOMAIN k = Fields /\ Stocked(k)
  BY DEF AllStocked, Wired
<1>3. ASSUME NEW p, conn' = [conn EXCEPT ![c].proc = p, ![c].down = <<>>]
      PROVE  /\ \A e \in Conn \ {c} : conn'[e] = conn[e]
             /\ FieldsOf(conn'[c], k.thread, k.boot, p, <<>>, k.up, k.reading)
  <2>1. /\ \A e \in Conn \ {c} : conn'[e] = conn[e]
        /\ conn'[c] = [k EXCEPT !.proc = p, !.down = <<>>]
    BY ONLY <1>2, <1>3, ZenonT(60)
  <2> HIDE DEF k
  <2>2. FieldsOf(conn'[c], k.thread, k.boot, p, <<>>, k.up, k.reading)
    BY ONLY <1>2, <2>1, ZenonT(60) DEF FieldsOf, Fields
  <2>3. QED BY <2>1, <2>2
<1>4. CASE conn' = [conn EXCEPT ![c].proc = "gone", ![c].down = <<>>]
  <2>1. /\ \A e \in Conn \ {c} : conn'[e] = conn[e]
        /\ FieldsOf(conn'[c], k.thread, k.boot, "gone", <<>>, k.up, k.reading)
    BY <1>3, <1>4
  <2>2. IsSequence(k.up)
    BY <1>2 DEF Stocked
  <2> HIDE DEF k
  <2>3. Passes(k, conn'[c], {}, {})
    BY <1>1, <1>2, <2>1, <2>2, EndPasses
  <2>4. QED BY <2>1, <2>3 DEF FlowsAt, k
<1>5. CASE /\ conn' = [conn EXCEPT ![c].proc = "wedged", ![c].down = <<>>]
           /\ left' = left \cup {[gen |-> g, how |-> "garbled"] : g \in DispatchesIn(k.down)}
  <2>1. /\ \A e \in Conn \ {c} : conn'[e] = conn[e]
        /\ FieldsOf(conn'[c], k.thread, k.boot, "wedged", <<>>, k.up, k.reading)
    BY <1>3, <1>5
  <2>2. ASSUME NEW g \in DispatchesIn(k.down) PROVE LeftBehind(g)'
    <3>1. [gen |-> g, how |-> "garbled"] \in left'
      BY <1>5
    <3>2. QED BY <3>1 DEF LeftBehind
  <2> HIDE DEF k
  <2>3. Passes(k, conn'[c], {}, {})
    BY <1>1, <1>2, <2>1, <2>2, LosePasses
  <2>4. QED BY <2>1, <2>3 DEF FlowsAt, k
<1>6. QED BY <1>4, <1>5 DEF LoseStep

LEMMA EndFlows ==
  ASSUME AllStocked, NEW c \in Conn, ProcessEnds(c)
  PROVE  FlowsAt(c, {}, {})
<1> DEFINE k == conn[c]
<1>1. PICK n \in 0 .. Len(k.up) :
        conn' = [conn EXCEPT ![c].proc = "gone", ![c].down = <<>>, ![c].up = SubSeq(k.up, 1, n)]
  BY DEF ProcessEnds
<1>2. k.proc \in {"waiting", "serving", "wedged"}
  BY DEF ProcessEnds
<1>3. DOMAIN conn = Conn /\ DOMAIN k = Fields /\ Stocked(k)
  BY DEF AllStocked, Wired
<1> DEFINE up == SubSeq(k.up, 1, n)
<1>4. IsSequence(up) /\ Range(up) \subseteq Range(k.up)
  BY <1>3, PrefixIsSequence DEF Stocked
<1>5. conn' = [conn EXCEPT ![c].proc = "gone", ![c].down = <<>>, ![c].up = up]
  BY <1>1
<1> HIDE DEF up
<1>6. /\ \A e \in Conn \ {c} : conn'[e] = conn[e]
      /\ conn'[c] = [k EXCEPT !.proc = "gone", !.down = <<>>, !.up = up]
  BY ONLY <1>3, <1>5, ZenonT(60)
<1> HIDE DEF k
<1>7. FieldsOf(conn'[c], k.thread, k.boot, "gone", <<>>, up, k.reading)
  BY ONLY <1>3, <1>6, ZenonT(60) DEF FieldsOf, Fields
<1>8. Passes(k, conn'[c], {}, {})
  BY <1>2, <1>3, <1>4, <1>7, EndPasses
<1>9. QED BY <1>6, <1>8 DEF FlowsAt, k

LEMMA ConnectionFlows ==
  ASSUME AllStocked, NEW c \in Conn,
         \/ Connect(c) \/ StoreSocket(c) \/ Register(c) \/ AckHead(c) \/ AckBody(c) \/ ReadCompletion(c)
         \/ RefuseResult(c) \/ ErrorBody(c) \/ ProcessStep(c) \/ ProcessEnds(c)
  PROVE  FlowsAt(c, {}, {})
<1>1. CASE Connect(c) \/ StoreSocket(c) \/ Register(c)
  BY <1>1, ThreadFlows
<1>2. CASE AckHead(c) \/ AckBody(c) \/ ErrorBody(c)
  BY <1>2, ControlFlows
<1>3. CASE ReadCompletion(c)
  BY <1>3, ReadFlows
<1>4. CASE RefuseResult(c)
  BY <1>4, RefuseFlows
<1>5. CASE ReadAck(c)
  BY <1>5, AckFlows
<1>6. CASE ServeDispatch(c)
  BY <1>6, ServeFlows
<1>7. CASE IgnoreFrame(c)
  BY <1>7, IgnoreFlows
<1>8. CASE LoseStep(c)
  BY <1>8, LoseFlows
<1>9. CASE ProcessEnds(c)
  BY <1>9, EndFlows
<1>10. QED BY <1>1, <1>2, <1>3, <1>4, <1>5, <1>6, <1>7, <1>8, <1>9 DEF ProcessStep

(* The loop writes a piece of its frame.                                   *)
LEMMA WriteFlows ==
  ASSUME AllStocked, NEW c \in Conn, sending.conn = c, FrameOK(sending.frame), WriteHead \/ WriteBody
  PROVE  /\ FlowsAt(c, Range(sending.frame.members), {})
         /\ conn'[c].thread = conn[c].thread /\ conn'[c].proc = conn[c].proc
         /\ conn[c].proc \in {"waiting", "serving"} =>
              Range(sending.frame.members) \subseteq Load(conn'[c])
<1> DEFINE f == sending.frame
<1>1. PICK part : conn' = [conn EXCEPT ![c] = Written(conn[c], [part |-> part, frame |-> f])]
  <2>1. CASE WriteHead
    BY <2>1 DEF WriteHead, HeadOf
  <2>2. CASE WriteBody
    BY <2>2 DEF WriteBody, BodyOf
  <2>3. QED BY <2>1, <2>2
<1> DEFINE l == Written(conn[c], [part |-> part, frame |-> f])
<1>2. /\ DOMAIN conn[c] = Fields /\ Stocked(conn[c])
      /\ conn'[c] = l /\ \A e \in Conn \ {c} : conn'[e] = conn[e]
  BY <1>1, OneChanges
<1>3. /\ Passes(conn[c], l, Range(f.members), {})
      /\ l.thread = conn[c].thread /\ l.proc = conn[c].proc
      /\ conn[c].proc \in {"waiting", "serving"} => Range(f.members) \subseteq Load(l)
  <2>1. DOMAIN conn[c] = Fields /\ Stocked(conn[c]) /\ FrameOK(f)
    BY <1>2
  <2> HIDE DEF f
  <2>2. QED BY ONLY <2>1, WritePasses, SMTT(20)
<1> HIDE DEF l
<1>4. QED BY <1>2, <1>3 DEF FlowsAt

LEMMA EndsStocked ==
  ASSUME AllStocked, NEW c \in Conn, ConnectionEnds(c)
  PROVE  /\ \A e \in Conn \ {c} : conn'[e] = conn[e]
         /\ conn'[c].thread = "closed" /\ conn'[c].proc = "gone" /\ Stocked(conn'[c])
         /\ Load(conn'[c]) = Load(conn[c]) /\ conn'[c].boot = conn[c].boot
         /\ conn[c].thread = "reading"
<1> DEFINE k == conn[c]
<1>1. k.thread = "reading" /\ k.proc = "gone" /\ conn' = [conn EXCEPT ![c].thread = "closed"]
  BY DEF ConnectionEnds
<1>2. DOMAIN conn = Conn /\ DOMAIN k = Fields /\ Stocked(k)
  BY DEF AllStocked, Wired
<1>3. /\ \A e \in Conn \ {c} : conn'[e] = conn[e]
      /\ conn'[c] = [k EXCEPT !.thread = "closed"]
  BY ONLY <1>1, <1>2, ZenonT(60)
<1> HIDE DEF k
<1>4. FieldsOf(conn'[c], "closed", k.boot, k.proc, k.down, k.up, k.reading)
  BY ONLY <1>2, <1>3, ZenonT(60) DEF FieldsOf, Fields
<1> DEFINE l == conn'[c]
<1> HIDE DEF l
<1>5. FieldsOf(l, "closed", k.boot, k.proc, k.down, k.up, k.reading)
  BY <1>4 DEF l
<1>6. Stocked(l) /\ Load(l) = Load(k)
  BY <1>1, <1>2, <1>5 DEF FieldsOf, Stocked, Load
<1>7. l.thread = "closed" /\ l.proc = "gone" /\ l.boot = k.boot
  BY <1>1, <1>5 DEF FieldsOf
<1>8. QED BY <1>1, <1>3, <1>6, <1>7 DEF l, k

-----------------------------------------------------------------------------
(* What the connections and the schedule loop hold.                        *)

(* What the coordinator's threads hold when they call.                     *)
UnsentType == [worker : Worker, members : Seq(Nat)]

Held ==
  /\ clients \in [Client -> Request \cup {None}]
  /\ batch \in Seq(UnsentType)
  /\ sending.phase # "idle" => batch # <<>>

LEMMA HeadTail ==
  ASSUME NEW S, NEW b \in Seq(S), b # <<>>
  PROVE  Head(b) \in S /\ Tail(b) \in Seq(S)
BY SMTT(20)

(* The schedule loop in the middle of dispatch_group: it is about to write *)
(* to the socket it found, and what it writes are the members of the group *)
(* that is first in the batch.                                             *)
InDispatch == sending.phase \in {"found", "built", "half"}

SendingOK ==
  /\ DOMAIN sending = {"phase", "conn", "frame"}
  /\ sending.phase \in {"idle", "found", "built", "half", "failed"}
  /\ \A e \in Range(batch) : e.members # <<>>
  /\ InDispatch => /\ sending.conn \in Conn /\ WorkerOf[sending.conn] = Head(batch).worker
                   /\ conn[sending.conn].thread # "none"
  /\ sending.phase \in {"built", "half"} =>
        sending.frame.kind = "dispatch" /\ sending.frame.members = Head(batch).members

Sound ==
  /\ \A c \in Conn : Stocked(conn[c])
  /\ \A c \in Conn : conn[c].boot \in Nat /\ conn[c].boot <= ws[WorkerOf[c]].boot
  /\ \A w \in Worker : socks[w] # None => conn[socks[w]].thread # "none"
  /\ SendingOK

Carrying ==
  Held /\ Wired /\ socks \in [Worker -> Conn \cup {None}] /\ SocketsAreServed /\ Sound

LEMMA FrameSent ==
  ASSUME Carrying, sending.phase \in {"built", "half"}
  PROVE  /\ batch # <<>> /\ batch \in Seq(UnsentType) /\ Head(batch) \in Range(batch)
         /\ sending.conn \in Conn /\ FrameOK(sending.frame)
         /\ sending.frame.members = Head(batch).members
<1>1. /\ batch \in Seq(UnsentType) /\ batch # <<>> /\ sending.conn \in Conn
      /\ sending.frame.kind = "dispatch" /\ sending.frame.members = Head(batch).members
      /\ \A e \in Range(batch) : e.members # <<>>
  BY DEF Carrying, Held, Sound, SendingOK, InDispatch
<1>2. Head(batch) \in Range(batch) /\ Head(batch) \in UnsentType
  BY <1>1, SMTT(20) DEF Range
<1>3. Head(batch).members \in Seq(Nat) /\ Head(batch).members # <<>>
  BY <1>1, <1>2 DEF UnsentType
<1>4. QED BY <1>1, <1>2, <1>3 DEF FrameOK

(* Every step: the connections stay stocked, and a thread once started has *)
(* started.                                                                *)
LEMMA ConnectionsStocked ==
  ASSUME Carrying, [NetNext]_allVars
  PROVE  \A c \in Conn : Stocked(conn'[c]) /\ (conn'[c].thread = "none" => conn[c].thread = "none")
<1>1. AllStocked
  BY DEF Carrying, Sound, AllStocked
<1>2. conn' = conn => \A c \in Conn : Stocked(conn'[c]) /\ (conn'[c].thread = "none" => conn[c].thread = "none")
  BY <1>1 DEF AllStocked
<1>3. ASSUME NEW c \in Conn, NEW new, NEW done, FlowsAt(c, new, done)
      PROVE  \A e \in Conn : Stocked(conn'[e]) /\ (conn'[e].thread = "none" => conn[e].thread = "none")
  BY <1>1, <1>3 DEF AllStocked, FlowsAt, Passes
<1>4. ASSUME NEW c \in Conn, Connect(c) \/ ThreadStep(c) \/ ProcessStep(c) \/ ProcessEnds(c)
      PROVE  \A e \in Conn : Stocked(conn'[e]) /\ (conn'[e].thread = "none" => conn[e].thread = "none")
  <2>1. CASE ReportResult(c)
    BY <1>1, <1>3, <2>1, ReportFlows
  <2>2. CASE ConnectionEnds(c)
    BY <1>1, <2>2, EndsStocked DEF AllStocked
  <2>3. CASE ~ReportResult(c) /\ ~ConnectionEnds(c)
    <3>1. FlowsAt(c, {}, {})
      BY <1>1, <1>4, <2>3, ConnectionFlows DEF ThreadStep
    <3>2. QED BY <1>3, <3>1
  <2>4. QED BY <2>1, <2>2, <2>3
<1>5. CASE WriteHead \/ WriteBody
  <2>1. sending.conn \in Conn /\ FrameOK(sending.frame)
    BY <1>5, FrameSent DEF WriteHead, WriteBody
  <2>2. QED BY <1>1, <1>3, <1>5, <2>1, WriteFlows
<1>6. CASE \/ UNCHANGED allVars \/ Start \/ ScheduleCycle \/ FindSocket \/ BuildFrame \/ WriteFails
           \/ DispatchFails \/ RollEpochCall \/ TimePasses
           \/ \E k \in Client : SubmitRequest(k) \/ \E r \in Request : SubmitTokens(k, r)
           \/ \E r \in Request : CancelRequest(r)
  BY <1>2, <1>6 DEF allVars, netVars, Start, ScheduleCycle, FindSocket, BuildFrame, WriteFails,
     DispatchFails, RollEpochCall, TimePasses, SubmitRequest, SubmitTokens, CancelRequest
<1>7. QED BY <1>4, <1>5, <1>6 DEF NetNext, ScheduleStep

LEMMA SocketsStarted ==
  ASSUME Carrying, [NetNext]_allVars
  PROVE  \A w \in Worker : socks'[w] # None => conn'[socks'[w]].thread # "none"
<1>1. \A w \in Worker : socks[w] # None => socks[w] \in Conn /\ conn[socks[w]].thread # "none"
  BY DEF Carrying, Sound
<1>2. \A c \in Conn : conn'[c].thread = "none" => conn[c].thread = "none"
  BY ConnectionsStocked
<1>3. AllStocked /\ socks \in [Worker -> Conn \cup {None}] /\ WorkerOf \in [Conn -> Worker \ {0}]
  BY CoordinatorAssumption DEF Carrying, Sound, AllStocked
<1>4. CASE socks' = socks
  BY <1>1, <1>2, <1>4
<1>5. ASSUME NEW c \in Conn, StoreSocket(c)
      PROVE  \A w \in Worker : socks'[w] # None => conn'[socks'[w]].thread # "none"
  <2>1. conn[c].thread = "accepted" /\ socks' = [socks EXCEPT ![WorkerOf[c]] = c]
    BY <1>5 DEF StoreSocket
  <2>2. \A w \in Worker : socks'[w] = c \/ socks'[w] = socks[w]
    BY <1>3, <2>1
  <2>3. QED BY <1>1, <1>2, <2>1, <2>2
<1>6. ASSUME NEW c \in Conn, ConnectionEnds(c)
      PROVE  \A w \in Worker : socks'[w] # None => conn'[socks'[w]].thread # "none"
  <2>1. \A w \in Worker : socks'[w] = None \/ socks'[w] = socks[w]
    BY <1>3, <1>6 DEF ConnectionEnds
  <2>2. QED BY <1>1, <1>2, <2>1
<1>7. ASSUME NEW c \in Conn, Register(c)
      PROVE  socks' = socks
  BY <1>7 DEF Register
<1>8. CASE \A c \in Conn : ~StoreSocket(c) /\ ~Register(c) /\ ~ConnectionEnds(c)
  BY <1>4, <1>8, ConnectionsQuiet DEF Carrying
<1>9. QED BY <1>4, <1>5, <1>6, <1>7, <1>8

LEMMA SendingStep ==
  ASSUME Carrying, [NetNext]_allVars,
         ScheduleCycle => \A g \in Formed : Unsent(g).members # <<>>
  PROVE  SendingOK'
<1>1. /\ SendingOK /\ batch \in Seq(UnsentType) /\ socks \in [Worker -> Conn \cup {None}]
      /\ \A w \in Worker : socks[w] # None => WorkerOf[socks[w]] = w /\ conn[socks[w]].thread # "none"
  BY DEF Carrying, Sound, Held, SocketsAreServed
<1>2. \A c \in Conn : conn'[c].thread = "none" => conn[c].thread = "none"
  BY ConnectionsStocked
<1>3. CASE UNCHANGED <<batch, sending>>
  BY <1>1, <1>2, <1>3 DEF SendingOK, InDispatch
<1>4. CASE ScheduleCycle
  <2>1. PICK order \in [1 .. Cardinality(Formed) -> Formed] :
          batch' = [i \in DOMAIN order |-> Unsent(order[i])]
    BY <1>4 DEF ScheduleCycle
  <2>2. \A e \in Range(batch') : e.members # <<>>
    BY <1>4, <2>1 DEF Range
  <2>3. batch = <<>> /\ sending' = sending
    BY <1>4 DEF ScheduleCycle
  <2>4. sending.phase = "idle"
    BY <2>3 DEF Carrying, Held
  <2>5. QED BY <1>1, <2>2, <2>3, <2>4 DEF SendingOK, InDispatch
<1>5. CASE FindSocket
  <2> DEFINE c == socks[Head(batch).worker]
  <2>1. /\ batch # <<>> /\ batch' = batch /\ conn' = conn
        /\ sending' = [Idle EXCEPT !.phase = IF c = None THEN "failed" ELSE "found", !.conn = c]
    BY <1>5 DEF FindSocket
  <2>2. Head(batch).worker \in Worker
    <3>1. Head(batch) \in UnsentType
      BY ONLY <1>1, <2>1, HeadTail, ZenonT(60)
    <3>2. QED BY <3>1 DEF UnsentType
  <2>3. /\ sending'.phase = (IF c = None THEN "failed" ELSE "found") /\ sending'.conn = c
        /\ DOMAIN sending' = {"phase", "conn", "frame"}
    BY <2>1 DEF Idle
  <2>4. QED BY <1>1, <2>1, <2>2, <2>3 DEF SendingOK, InDispatch
<1>6. CASE BuildFrame \/ WriteFails \/ WriteHead
  <2>1. batch' = batch /\ sending.phase \in {"found", "built", "half"}
    BY <1>6 DEF BuildFrame, WriteFails, WriteHead
  <2>2. DOMAIN sending = {"phase", "conn", "frame"}
    BY <1>1 DEF SendingOK
  <2>3. CASE BuildFrame
    <3> DEFINE members == Head(batch).members
               f == DispatchFrame(members)
    <3>1. \/ sending' = [sending EXCEPT !.phase = "built", !.frame = f]
          \/ sending' = [sending EXCEPT !.phase = "failed"]
      BY <2>3 DEF BuildFrame
    <3>2. f.kind = "dispatch" /\ f.members = members
      BY DEF DispatchFrame
    <3> HIDE DEF f
    <3>3. /\ DOMAIN sending' = {"phase", "conn", "frame"} /\ sending'.conn = sending.conn
          /\ \/ sending'.phase = "built" /\ sending'.frame = f
             \/ sending'.phase = "failed"
      BY ONLY <2>2, <3>1, ZenonT(60)
    <3>4. QED BY <1>1, <1>2, <2>1, <3>2, <3>3 DEF SendingOK, InDispatch
  <2>4. CASE WriteFails \/ WriteHead
    <3>1. \/ sending' = [sending EXCEPT !.phase = "failed"]
          \/ sending' = [sending EXCEPT !.phase = "half"] /\ sending.phase = "built"
      BY <2>4 DEF WriteFails, WriteHead
    <3>2. /\ DOMAIN sending' = {"phase", "conn", "frame"} /\ sending'.conn = sending.conn
          /\ sending'.frame = sending.frame
          /\ sending'.phase = "failed" \/ (sending'.phase = "half" /\ sending.phase = "built")
      BY ONLY <2>2, <3>1, ZenonT(60)
    <3>3. QED BY <1>1, <1>2, <2>1, <3>2 DEF SendingOK, InDispatch
  <2>5. QED BY <1>6, <2>3, <2>4
<1>7. CASE WriteBody \/ DispatchFails
  <2>1. batch' = Tail(batch) /\ sending' = Idle /\ batch # <<>>
    BY <1>1, <1>7 DEF WriteBody, DispatchFails, Carrying, Held
  <2>2. IsSequence(batch)
    BY <1>1, OwnSequence DEF IsSequence
  <2>3. Range(batch') \subseteq Range(batch)
    BY <2>1, <2>2, TailIsSequence
  <2>4. sending'.phase = "idle" /\ DOMAIN sending' = {"phase", "conn", "frame"}
    BY <2>1 DEF Idle
  <2>5. QED BY <1>1, <2>3, <2>4 DEF SendingOK, InDispatch
<1>8. ASSUME NEW c \in Conn, Connect(c) \/ ThreadStep(c) \/ ProcessStep(c) \/ ProcessEnds(c)
      PROVE  UNCHANGED <<batch, sending>>
  BY <1>8 DEF Connect, ThreadStep, StoreSocket, Register, AckHead, AckBody, ReadCompletion,
     ReportResult, RefuseResult, ErrorBody, ConnectionEnds, ProcessStep, ReadAck, ServeDispatch,
     IgnoreFrame, LoseStep, ProcessEnds
<1>9. CASE \/ UNCHANGED allVars \/ Start \/ RollEpochCall \/ TimePasses
           \/ \E k \in Client : SubmitRequest(k) \/ \E r \in Request : SubmitTokens(k, r)
           \/ \E r \in Request : CancelRequest(r)
  BY <1>3, <1>9 DEF allVars, netVars, Start, RollEpochCall, TimePasses, SubmitRequest,
     SubmitTokens, CancelRequest
<1>10. QED BY <1>3, <1>4, <1>5, <1>6, <1>7, <1>8, <1>9 DEF NetNext, ScheduleStep

-----------------------------------------------------------------------------
(* One dispatch, of generation g, that was given to the worker w.          *)

(* What carries it, carries it for w; and dispatch_group is not writing    *)
(* the group of w to a connection whose end it has missed.                 *)
OnlyWith(g, w) ==
  /\ \A e \in Range(batch) : g \in Range(e.members) => e.worker = w
  /\ \A c \in Conn : g \in Load(conn[c]) => WorkerOf[c] = w
  /\ InDispatch /\ conn[sending.conn].thread = "closed" => w # Head(batch).worker

Accounted(g, w) ==
  \/ Waiting(g) \/ LeftBehind(g) \/ LossPending(w)
  \/ \E c \in Conn : g \in Load(conn[c])

LEMMA WaitingIs ==
  ASSUME NEW g
  PROVE  Waiting(g) <=> \E e \in Range(batch) : g \in Range(e.members)
BY DEF Waiting, Range

LEMMA LeftGrows ==
  ASSUME [NetNext]_allVars, NEW g, LeftBehind(g)
  PROVE  LeftBehind(g)'
<1>1. ASSUME NEW c \in Conn, Connect(c) \/ ThreadStep(c) \/ ProcessStep(c) \/ ProcessEnds(c)
      PROVE  left \subseteq left'
  BY <1>1 DEF Connect, ThreadStep, StoreSocket, Register, AckHead, AckBody, ReadCompletion,
     ReportResult, RefuseResult, ErrorBody, ConnectionEnds, ProcessStep, ReadAck, ServeDispatch,
     IgnoreFrame, LoseStep, ProcessEnds
<1>2. CASE ScheduleStep
  BY <1>2 DEF ScheduleStep, ScheduleCycle, FindSocket, BuildFrame, WriteHead, WriteBody, WriteFails,
     DispatchFails, LeftBehind
<1>3. CASE \/ UNCHANGED allVars \/ Start \/ RollEpochCall \/ TimePasses
           \/ \E k \in Client : SubmitRequest(k) \/ \E r \in Request : SubmitTokens(k, r)
           \/ \E r \in Request : CancelRequest(r)
  BY <1>3 DEF allVars, netVars, Start, RollEpochCall, TimePasses, SubmitRequest, SubmitTokens,
     CancelRequest, LeftBehind
<1>4. QED BY <1>1, <1>2, <1>3 DEF NetNext, LeftBehind

(* A step of the connection c: what it carried is carried on, noted, or    *)
(* ended with a process whose thread is there to declare w lost.           *)
Ending(w) == \E c \in Conn : WorkerOf[c] = w /\ conn[c].proc = "gone" /\ conn[c].thread # "closed"

OnItsWay(g) == \E c \in Conn : g \in Load(conn[c])

LEMMA AccountedIs ==
  ASSUME NEW g, NEW w
  PROVE  Accounted(g, w) <=> \/ Waiting(g) \/ LeftBehind(g) \/ OnItsWay(g) \/ Ending(w)
                             \/ sending.phase = "failed" /\ Head(batch).worker = w
BY DEF Accounted, LossPending, Ending, OnItsWay

LEMMA FlowsKept ==
  ASSUME NEW c \in Conn, NEW new, NEW done, FlowsAt(c, new, done),
         NEW g, NEW w, OnlyWith(g, w), g \notin done, g \in new => WorkerOf[c] = w
  PROVE  /\ \A e \in Conn : g \in Load(conn'[e]) => WorkerOf[e] = w
         /\ Ending(w) => Ending(w)'
         /\ OnItsWay(g) => OnItsWay(g)' \/ LeftBehind(g)' \/ Ending(w)'
<1>1. /\ \A e \in Conn \ {c} : conn'[e] = conn[e]
      /\ g \in Load(conn'[c]) => g \in Load(conn[c]) \/ g \in new
      /\ conn'[c].thread = "closed" => conn[c].thread = "closed"
      /\ conn[c].proc = "gone" => conn'[c].proc = "gone"
      /\ \/ conn'[c].proc = "gone" /\ conn'[c].thread # "closed"
         \/ g \in Load(conn[c]) => g \in Load(conn'[c]) \/ LeftBehind(g)'
  BY DEF FlowsAt, Passes
<1>2. \A e \in Conn : g \in Load(conn[e]) => WorkerOf[e] = w
  BY DEF OnlyWith
<1>3. \A e \in Conn : g \in Load(conn'[e]) => WorkerOf[e] = w
  BY <1>1, <1>2
<1>4. Ending(w) => Ending(w)'
  <2> SUFFICES ASSUME NEW e \in Conn, WorkerOf[e] = w, conn[e].proc = "gone", conn[e].thread # "closed"
               PROVE  Ending(w)'
    BY DEF Ending
  <2>1. conn'[e].proc = "gone" /\ conn'[e].thread # "closed"
    BY <1>1
  <2>2. QED BY <2>1 DEF Ending
<1>5. OnItsWay(g) => OnItsWay(g)' \/ LeftBehind(g)' \/ Ending(w)'
  <2> SUFFICES ASSUME NEW e \in Conn, g \in Load(conn[e])
               PROVE  OnItsWay(g)' \/ LeftBehind(g)' \/ Ending(w)'
    BY DEF OnItsWay
  <2>1. CASE g \in Load(conn'[e])
    BY <2>1 DEF OnItsWay
  <2>2. CASE g \notin Load(conn'[e])
    <3>1. e = c /\ WorkerOf[c] = w
      BY <1>1, <1>2, <2>2
    <3>2. conn'[c].proc = "gone" /\ conn'[c].thread # "closed" => Ending(w)'
      BY <3>1 DEF Ending
    <3>3. QED BY <1>1, <2>2, <3>1, <3>2
  <2>3. QED BY <2>1, <2>2
<1>6. QED BY <1>3, <1>4, <1>5

LEMMA AccountedLater ==
  ASSUME [NetNext]_allVars, NEW g, NEW w, Accounted(g, w),
         Waiting(g) => Accounted(g, w)',
         Ending(w) => Ending(w)',
         OnItsWay(g) => OnItsWay(g)' \/ LeftBehind(g)' \/ Ending(w)',
         sending.phase = "failed" /\ Head(batch).worker = w =>
           sending'.phase = "failed" /\ Head(batch').worker = w
  PROVE  Accounted(g, w)'
<1>1. LeftBehind(g) => LeftBehind(g)'
  BY LeftGrows
<1>2. Accounted(g, w) <=> \/ Waiting(g) \/ LeftBehind(g) \/ OnItsWay(g) \/ Ending(w)
                          \/ sending.phase = "failed" /\ Head(batch).worker = w
  BY AccountedIs
<1>3. (Accounted(g, w) <=> \/ Waiting(g) \/ LeftBehind(g) \/ OnItsWay(g) \/ Ending(w)
                           \/ sending.phase = "failed" /\ Head(batch).worker = w)'
  BY AccountedIs, PTL
<1>4. QED BY <1>1, <1>2, <1>3

(* The schedule loop is where it was.                                      *)
LEMMA FlowsAccounted ==
  ASSUME Carrying, [NetNext]_allVars, NEW c \in Conn, NEW done, FlowsAt(c, {}, done),
         UNCHANGED <<batch, sending>>, NEW g, NEW w, g \notin done, OnlyWith(g, w), Accounted(g, w)
  PROVE  OnlyWith(g, w)' /\ Accounted(g, w)'
<1>1. /\ \A e \in Conn : g \in Load(conn'[e]) => WorkerOf[e] = w
      /\ Ending(w) => Ending(w)'
      /\ OnItsWay(g) => OnItsWay(g)' \/ LeftBehind(g)' \/ Ending(w)'
  BY FlowsKept
<1>2. batch' = batch /\ sending' = sending
  OBVIOUS
<1>3. OnlyWith(g, w)'
  <2>1. InDispatch => sending.conn \in Conn
    BY DEF Carrying, Sound, SendingOK
  <2>2. \A e \in Conn : conn'[e].thread = "closed" => conn[e].thread = "closed"
    BY DEF FlowsAt, Passes
  <2>3. InDispatch' /\ conn'[sending'.conn].thread = "closed" => w # Head(batch').worker
    BY <1>2, <2>1, <2>2 DEF OnlyWith, InDispatch
  <2>4. \A e \in Range(batch)' : g \in Range(e.members) => e.worker = w
    BY <1>2 DEF OnlyWith
  <2>5. QED BY <1>1, <2>3, <2>4 DEF OnlyWith
<1>4. Waiting(g) => Accounted(g, w)'
  BY <1>2 DEF Waiting, Accounted
<1>5. QED BY <1>1, <1>2, <1>3, <1>4, AccountedLater

(* The thread of a connection of another worker ends.                      *)
LEMMA EndsAccounted ==
  ASSUME Carrying, [NetNext]_allVars, NEW c \in Conn, ConnectionEnds(c),
         NEW g, NEW w, w # WorkerOf[c], OnlyWith(g, w), Accounted(g, w)
  PROVE  OnlyWith(g, w)' /\ Accounted(g, w)'
<1>1. /\ \A e \in Conn \ {c} : conn'[e] = conn[e]
      /\ conn'[c].thread = "closed" /\ Load(conn'[c]) = Load(conn[c])
  BY EndsStocked DEF Carrying, Sound, AllStocked
<1>2. batch' = batch /\ sending' = sending
  BY DEF ConnectionEnds
<1>3. \A e \in Conn : Load(conn'[e]) = Load(conn[e])
  BY <1>1
<1>4. InDispatch => sending.conn \in Conn /\ WorkerOf[sending.conn] = Head(batch).worker
  BY DEF Carrying, Sound, SendingOK
<1>5. OnlyWith(g, w)'
  <2>1. \A e \in Conn : g \in Load(conn'[e]) => WorkerOf[e] = w
    BY <1>3 DEF OnlyWith
  <2>2. InDispatch' /\ conn'[sending'.conn].thread = "closed" => w # Head(batch').worker
    BY <1>1, <1>2, <1>4 DEF OnlyWith, InDispatch
  <2>3. \A e \in Range(batch)' : g \in Range(e.members) => e.worker = w
    BY <1>2 DEF OnlyWith
  <2>4. QED BY <2>1, <2>2, <2>3 DEF OnlyWith
<1>6. Waiting(g) => Accounted(g, w)'
  BY <1>2 DEF Waiting, Accounted
<1>7. Ending(w) => Ending(w)'
  BY <1>1 DEF Ending
<1>8. OnItsWay(g) => OnItsWay(g)'
  BY <1>3 DEF OnItsWay
<1>9. QED BY <1>2, <1>5, <1>6, <1>7, <1>8, AccountedLater

(* The loop looks for the socket, builds the frame, or meets an error.     *)
LEMMA BuildAccounted ==
  ASSUME Carrying, [NetNext]_allVars, FindSocket \/ BuildFrame \/ WriteFails,
         NEW g, NEW w, OnlyWith(g, w), Accounted(g, w)
  PROVE  OnlyWith(g, w)' /\ Accounted(g, w)'
<1>1. conn' = conn /\ batch' = batch /\ sending.phase # "failed"
  BY DEF FindSocket, BuildFrame, WriteFails
<1>2. InDispatch' /\ conn'[sending'.conn].thread = "closed" => w # Head(batch').worker
  <2>1. CASE FindSocket
    <3> DEFINE c == socks[Head(batch).worker]
    <3>1. batch # <<>> /\ sending' = [Idle EXCEPT !.phase = IF c = None THEN "failed" ELSE "found", !.conn = c]
      BY <2>1 DEF FindSocket
    <3>2. sending'.conn = c /\ sending'.phase = IF c = None THEN "failed" ELSE "found"
      BY <3>1 DEF Idle
    <3>3. Head(batch).worker \in Worker
      BY <3>1, HeadTail DEF Carrying, Held, UnsentType
    <3>4. InDispatch' => c # None
      BY <3>2 DEF InDispatch
    <3>5. c # None => conn[c].thread # "closed"
      BY <3>3 DEF Carrying, SocketsAreServed
    <3>6. QED BY <1>1, <3>2, <3>4, <3>5
  <2>2. CASE BuildFrame \/ WriteFails
    <3>1. InDispatch /\ DOMAIN sending = {"phase", "conn", "frame"}
      BY <2>2 DEF BuildFrame, WriteFails, InDispatch, Carrying, Sound, SendingOK
    <3>2. \/ sending' = [sending EXCEPT !.phase = "failed"]
          \/ \E f : sending' = [sending EXCEPT !.phase = "built", !.frame = f]
      BY <2>2 DEF BuildFrame, WriteFails
    <3>3. sending'.conn = sending.conn
      BY ONLY <3>1, <3>2, ZenonT(60)
    <3>4. QED BY <1>1, <3>1, <3>3 DEF OnlyWith
  <2>3. QED BY <2>1, <2>2
<1>3. OnlyWith(g, w)'
  <2>1. \A e \in Conn : g \in Load(conn'[e]) => WorkerOf[e] = w
    BY <1>1 DEF OnlyWith
  <2>2. \A e \in Range(batch)' : g \in Range(e.members) => e.worker = w
    BY <1>1 DEF OnlyWith
  <2>3. QED BY <1>2, <2>1, <2>2 DEF OnlyWith
<1>4. Waiting(g) => Accounted(g, w)'
  BY <1>1 DEF Waiting, Accounted
<1>5. (Ending(w) => Ending(w)') /\ (OnItsWay(g) => OnItsWay(g)')
  BY <1>1 DEF Ending, OnItsWay
<1>6. QED BY <1>1, <1>3, <1>4, <1>5, AccountedLater

(* The loop writes.  Once the body is written the group has left the       *)
(* batch: its members are on the connection, or were noted as garbled, or  *)
(* the process was gone and the thread has yet to notice.                  *)
LEMMA WriteAccounted ==
  ASSUME Carrying, [NetNext]_allVars, WriteHead \/ WriteBody,
         NEW g, NEW w, OnlyWith(g, w), Accounted(g, w)
  PROVE  OnlyWith(g, w)' /\ Accounted(g, w)'
<1> DEFINE c == sending.conn
           new == Range(sending.frame.members)
<1>1. /\ batch # <<>> /\ batch \in Seq(UnsentType) /\ Head(batch) \in Range(batch)
      /\ c \in Conn /\ FrameOK(sending.frame) /\ sending.frame.members = Head(batch).members
  BY FrameSent DEF WriteHead, WriteBody
<1>2. /\ InDispatch /\ sending.phase # "failed" /\ conn[c].thread # "none"
      /\ WorkerOf[c] = Head(batch).worker
  BY DEF WriteHead, WriteBody, InDispatch, Carrying, Sound, SendingOK
<1>3. /\ FlowsAt(c, new, {})
      /\ conn'[c].thread = conn[c].thread /\ conn'[c].proc = conn[c].proc
      /\ conn[c].proc \in {"waiting", "serving"} => new \subseteq Load(conn'[c])
  BY <1>1, WriteFlows DEF Carrying, Sound, AllStocked
<1>4. g \in new => w = Head(batch).worker /\ WorkerOf[c] = w
  BY <1>1, <1>2 DEF OnlyWith
<1>5. /\ \A e \in Conn : g \in Load(conn'[e]) => WorkerOf[e] = w
      /\ Ending(w) => Ending(w)'
      /\ OnItsWay(g) => OnItsWay(g)' \/ LeftBehind(g)' \/ Ending(w)'
  <2> HIDE DEF c, new
  <2>1. QED BY <1>1, <1>3, <1>4, FlowsKept, SMTT(20)
<1>6. Range(batch) = {Head(batch)} \cup Range(Tail(batch))
  BY <1>1, OwnSequence, TailIsSequence
<1>7. OnlyWith(g, w)'
  <2>1. Range(batch') \subseteq Range(batch)
    <3>1. batch' = batch \/ batch' = Tail(batch)
      BY DEF WriteHead, WriteBody
    <3>2. QED BY <1>6, <3>1
  <2>2. \A e \in Range(batch') : g \in Range(e.members) => e.worker = w
    BY <2>1 DEF OnlyWith
  <2>3. InDispatch' /\ conn'[sending'.conn].thread = "closed" => w # Head(batch').worker
    <3>1. CASE WriteHead
      <4>1. sending' = [sending EXCEPT !.phase = "half"] /\ batch' = batch
        BY <3>1 DEF WriteHead
      <4>2. DOMAIN sending = {"phase", "conn", "frame"}
        BY DEF Carrying, Sound, SendingOK
      <4>3. sending'.conn = sending.conn
        BY ONLY <4>1, <4>2, ZenonT(60)
      <4>4. QED BY <1>2, <1>3, <4>1, <4>3 DEF OnlyWith
    <3>2. CASE WriteBody
      BY <3>2 DEF WriteBody, Idle, InDispatch
    <3>3. QED BY <3>1, <3>2
  <2>4. QED BY <1>5, <2>2, <2>3 DEF OnlyWith
<1>8. Waiting(g) => Accounted(g, w)'
  <2>1. CASE WriteHead
    <3>1. batch' = batch
      BY <2>1 DEF WriteHead
    <3>2. QED BY <3>1 DEF Waiting, Accounted
  <2>2. CASE WriteBody /\ \E e \in Range(Tail(batch)) : g \in Range(e.members)
    <3>1. batch' = Tail(batch)
      BY <2>2 DEF WriteBody
    <3>2. (Waiting(g) <=> \E e \in Range(batch) : g \in Range(e.members))'
      BY WaitingIs, PTL
    <3>3. QED BY <2>2, <3>1, <3>2 DEF Accounted
  <2>3. CASE WriteBody /\ g \in new
    <3>1. conn[c].thread # "closed"
      BY <1>2, <1>4, <2>3 DEF OnlyWith
    <3>2. conn[c].proc \in {"waiting", "serving", "wedged", "gone"}
      BY <1>1, <1>2 DEF Carrying, Sound, Stocked
    <3>3. CASE conn[c].proc \in {"waiting", "serving"}
      BY <1>1, <1>3, <2>3, <3>3 DEF Accounted
    <3>4. CASE conn[c].proc = "wedged"
      <4>1. [gen |-> g, how |-> "garbled"] \in left'
        BY <2>3, <3>4 DEF WriteBody
      <4>2. LeftBehind(g)'
        BY <4>1 DEF LeftBehind
      <4>3. QED BY <4>2 DEF Accounted
    <3>5. CASE conn[c].proc = "gone"
      <4>1. LossPending(w)'
        BY <1>1, <1>3, <1>4, <2>3, <3>1, <3>5 DEF LossPending
      <4>2. QED BY <4>1 DEF Accounted
    <3>6. QED BY <3>2, <3>3, <3>4, <3>5
  <2>4. Waiting(g) => \/ \E e \in Range(Tail(batch)) : g \in Range(e.members)
                      \/ g \in new
    BY <1>1, <1>6, WaitingIs
  <2>5. QED BY <2>1, <2>2, <2>3, <2>4
<1>9. QED BY <1>2, <1>5, <1>7, <1>8, AccountedLater

(* The group is given up, and with it the worker, which is not w.          *)
LEMMA FailAccounted ==
  ASSUME Carrying, [NetNext]_allVars, DispatchFails,
         NEW g, NEW w, w # Head(batch).worker, OnlyWith(g, w), Accounted(g, w)
  PROVE  OnlyWith(g, w)' /\ Accounted(g, w)'
<1>1. conn' = conn /\ batch' = Tail(batch) /\ sending' = Idle
  BY DEF DispatchFails
<1>2. batch # <<>> /\ batch \in Seq(UnsentType)
  BY DEF DispatchFails, Carrying, Held
<1>3. Range(batch) = {Head(batch)} \cup Range(Tail(batch))
  BY <1>2, OwnSequence, TailIsSequence
<1>4. OnlyWith(g, w)'
  <2>1. \A e \in Conn : g \in Load(conn'[e]) => WorkerOf[e] = w
    BY <1>1 DEF OnlyWith
  <2>2. \A e \in Range(batch') : g \in Range(e.members) => e.worker = w
    BY <1>1, <1>3 DEF OnlyWith
  <2>3. ~InDispatch'
    BY <1>1 DEF InDispatch, Idle
  <2>4. QED BY <2>1, <2>2, <2>3 DEF OnlyWith
<1>5. Waiting(g) => Accounted(g, w)'
  <2>1. (Waiting(g) <=> \E e \in Range(batch) : g \in Range(e.members))'
    BY WaitingIs, PTL
  <2>2. g \notin Range(Head(batch).members)
    BY <1>3 DEF OnlyWith
  <2>3. Waiting(g) => \E e \in Range(Tail(batch)) : g \in Range(e.members)
    BY <1>3, <2>2, WaitingIs
  <2>4. QED BY <1>1, <2>1, <2>3 DEF Accounted
<1>6. (Ending(w) => Ending(w)') /\ (OnItsWay(g) => OnItsWay(g)')
  BY <1>1 DEF Ending, OnItsWay
<1>7. QED BY <1>4, <1>5, <1>6, AccountedLater

(* Nothing of it moves.                                                    *)
LEMMA QuietAccounted ==
  ASSUME [NetNext]_allVars, UNCHANGED <<conn, batch, sending>>,
         NEW g, NEW w, OnlyWith(g, w), Accounted(g, w)
  PROVE  OnlyWith(g, w)' /\ Accounted(g, w)'
<1>1. conn' = conn /\ batch' = batch /\ sending' = sending
  OBVIOUS
<1>2. OnlyWith(g, w)'
  BY <1>1 DEF OnlyWith, InDispatch
<1>3. Waiting(g) => Accounted(g, w)'
  BY <1>1 DEF Waiting, Accounted
<1>4. (Ending(w) => Ending(w)') /\ (OnItsWay(g) => OnItsWay(g)')
  BY <1>1 DEF Ending, OnItsWay
<1>5. QED BY <1>1, <1>2, <1>3, <1>4, AccountedLater

(* So a dispatch stays accounted for until its result is reported, its     *)
(* worker is declared lost, or a new cycle begins.                         *)
LEMMA AccountedStep ==
  ASSUME Carrying, [NetNext]_allVars, ~ScheduleCycle,
         NEW g, NEW w, OnlyWith(g, w), Accounted(g, w),
         \A c \in Conn : ReportResult(c) => g # Current(c).gen,
         \A c \in Conn : ConnectionEnds(c) => w # WorkerOf[c],
         DispatchFails => w # Head(batch).worker
  PROVE  OnlyWith(g, w)' /\ Accounted(g, w)'
<1>1. AllStocked
  BY DEF Carrying, Sound, AllStocked
<1>2. ASSUME NEW c \in Conn, Connect(c) \/ ThreadStep(c) \/ ProcessStep(c) \/ ProcessEnds(c)
      PROVE  OnlyWith(g, w)' /\ Accounted(g, w)'
  <2>1. UNCHANGED <<batch, sending>>
    BY <1>2 DEF Connect, ThreadStep, StoreSocket, Register, AckHead, AckBody, ReadCompletion,
       ReportResult, RefuseResult, ErrorBody, ConnectionEnds, ProcessStep, ReadAck, ServeDispatch,
       IgnoreFrame, LoseStep, ProcessEnds
  <2>2. CASE ConnectionEnds(c)
    BY <2>2, EndsAccounted
  <2>3. CASE ReportResult(c)
    <3>1. FlowsAt(c, {}, {Current(c).gen}) /\ g \notin {Current(c).gen}
      BY <1>1, <2>3, ReportFlows
    <3>2. QED BY <2>1, <3>1, FlowsAccounted
  <2>4. CASE ~ConnectionEnds(c) /\ ~ReportResult(c)
    <3>1. FlowsAt(c, {}, {}) /\ g \notin {}
      BY <1>1, <1>2, <2>4, ConnectionFlows DEF ThreadStep
    <3>2. QED BY <2>1, <3>1, FlowsAccounted, SMTT(20)
  <2>5. QED BY <2>2, <2>3, <2>4
<1>3. CASE ScheduleStep
  BY <1>3, BuildAccounted, WriteAccounted, FailAccounted DEF ScheduleStep
<1>4. CASE \/ UNCHANGED allVars \/ Start \/ RollEpochCall \/ TimePasses
           \/ \E k \in Client : SubmitRequest(k) \/ \E r \in Request : SubmitTokens(k, r)
           \/ \E r \in Request : CancelRequest(r)
  <2>1. UNCHANGED <<conn, batch, sending>>
    BY <1>4 DEF allVars, netVars, Start, RollEpochCall, TimePasses, SubmitRequest, SubmitTokens,
       CancelRequest
  <2>2. QED BY <2>1, QuietAccounted
<1>5. QED BY <1>2, <1>3, <1>4 DEF NetNext

(* A generation that nothing carries.  Only a cycle brings in new ones.    *)
Nowhere(g) ==
  /\ \A e \in Range(batch) : g \notin Range(e.members)
  /\ \A c \in Conn : g \notin Load(conn[c])

LEMMA NowhereStep ==
  ASSUME Carrying, [NetNext]_allVars, ~ScheduleCycle, NEW g, Nowhere(g)
  PROVE  Nowhere(g)'
<1>1. AllStocked /\ batch \in Seq(UnsentType)
  BY DEF Carrying, Sound, AllStocked, Held
<1>2. \A c \in Conn : \A new, done :
        FlowsAt(c, new, done) /\ g \notin new => \A e \in Conn : g \notin Load(conn'[e])
  BY DEF Nowhere, FlowsAt, Passes
<1>3. (\A e \in Conn : g \notin Load(conn'[e])) /\ Range(batch') \subseteq Range(batch) => Nowhere(g)'
  BY DEF Nowhere
<1>4. ASSUME NEW c \in Conn, Connect(c) \/ ThreadStep(c) \/ ProcessStep(c) \/ ProcessEnds(c)
      PROVE  Nowhere(g)'
  <2>1. batch' = batch
    BY <1>4 DEF Connect, ThreadStep, StoreSocket, Register, AckHead, AckBody, ReadCompletion,
       ReportResult, RefuseResult, ErrorBody, ConnectionEnds, ProcessStep, ReadAck, ServeDispatch,
       IgnoreFrame, LoseStep, ProcessEnds
  <2>2. \A e \in Conn : g \notin Load(conn'[e])
    <3>1. CASE ConnectionEnds(c)
      BY <1>1, <3>1, EndsStocked DEF Nowhere
    <3>2. CASE ReportResult(c)
      BY <1>1, <1>2, <3>2, ReportFlows
    <3>3. CASE ~ConnectionEnds(c) /\ ~ReportResult(c)
      <4>1. FlowsAt(c, {}, {})
        BY <1>1, <1>4, <3>3, ConnectionFlows DEF ThreadStep
      <4>2. QED BY <1>2, <4>1
    <3>4. QED BY <3>1, <3>2, <3>3
  <2>3. QED BY <1>3, <2>1, <2>2
<1>5. CASE WriteHead \/ WriteBody
  <2>1. /\ batch # <<>> /\ Head(batch) \in Range(batch) /\ sending.conn \in Conn
        /\ FrameOK(sending.frame) /\ sending.frame.members = Head(batch).members
    BY <1>5, FrameSent DEF WriteHead, WriteBody
  <2>2. FlowsAt(sending.conn, Range(sending.frame.members), {})
    BY <1>1, <1>5, <2>1, WriteFlows
  <2>3. g \notin Range(sending.frame.members)
    BY <2>1 DEF Nowhere
  <2>4. \A e \in Conn : g \notin Load(conn'[e])
    BY <1>2, <2>1, <2>2, <2>3
  <2>5. batch' = batch \/ batch' = Tail(batch)
    BY <1>5 DEF WriteHead, WriteBody
  <2>6. Range(Tail(batch)) \subseteq Range(batch)
    BY <1>1, <2>1, OwnSequence, TailIsSequence
  <2>7. QED BY <1>3, <2>4, <2>5, <2>6
<1>6. CASE DispatchFails
  <2>1. batch # <<>> /\ batch' = Tail(batch) /\ conn' = conn
    BY <1>6 DEF DispatchFails, Carrying, Held
  <2>2. Range(Tail(batch)) \subseteq Range(batch)
    BY <1>1, <2>1, OwnSequence, TailIsSequence
  <2>3. QED BY <1>3, <2>1, <2>2 DEF Nowhere
<1>7. CASE \/ UNCHANGED allVars \/ Start \/ RollEpochCall \/ TimePasses
           \/ FindSocket \/ BuildFrame \/ WriteFails
           \/ \E k \in Client : SubmitRequest(k) \/ \E r \in Request : SubmitTokens(k, r)
           \/ \E r \in Request : CancelRequest(r)
  <2>1. conn' = conn /\ batch' = batch
    BY <1>7 DEF allVars, netVars, Start, RollEpochCall, TimePasses, SubmitRequest, SubmitTokens,
       CancelRequest, FindSocket, BuildFrame, WriteFails
  <2>2. QED BY <2>1 DEF Nowhere
<1>8. QED BY <1>4, <1>5, <1>6, <1>7 DEF NetNext, ScheduleStep

-----------------------------------------------------------------------------
(* The calls of the scheduler that a step makes.                           *)

(* A result that a connection takes is one the scheduler would take from   *)
(* the worker it was dispatched to.                                        *)
ReportsTaken ==
  \A c \in Conn : \A d \in Taken(c) : d \in issued /\ \E m \in Reports(d) : Authoritative(d, m)

NetCall ==
  \/ UNCHANGED vars \/ ScheduleCycle \/ UnregisterWorker(0) \/ RollEpoch \/ Tick
  \/ \E c \in Conn : Register(c)
  \/ \E d \in issued : ReportCompletion(d)
  \/ \E w \in Worker : WorkerLost(w)
  \/ \E r \in Request : Submit(r) \/ Cancel(r)

LEMMA NetCalls ==
  ASSUME Held, ReportsTaken, [NetNext]_allVars
  PROVE  NetCall
<1>1. ASSUME NEW c \in Conn, Connect(c) \/ ThreadStep(c) \/ ProcessStep(c) \/ ProcessEnds(c)
      PROVE  NetCall
  <2>1. CASE ReportResult(c)
    <3>1. PICK d \in Taken(c) : ReportSuccess(d) \/ ReportRetryable(d) \/ ReportNonRetryable(d)
      BY <2>1 DEF ReportResult
    <3>2. d \in issued /\ ReportCompletion(d)
      BY <3>1 DEF ReportCompletion, Report, ReportsTaken
    <3>3. QED BY <3>2 DEF NetCall
  <2>2. CASE ConnectionEnds(c)
    <3>1. WorkerOf[c] \in Worker /\ WorkerLost(WorkerOf[c])
      BY <2>2, CoordinatorAssumption DEF ConnectionEnds
    <3>2. QED BY <3>1 DEF NetCall
  <2>3. CASE Register(c)
    BY <2>3 DEF NetCall
  <2>4. CASE ~ReportResult(c) /\ ~ConnectionEnds(c) /\ ~Register(c)
    <3>1. UNCHANGED vars
      BY <1>1, <2>4 DEF ThreadStep, Connect, StoreSocket, AckHead, AckBody, ReadCompletion,
         RefuseResult, ErrorBody, ProcessStep, ReadAck, ServeDispatch, IgnoreFrame, LoseStep, ProcessEnds
    <3>2. QED BY <3>1 DEF NetCall
  <2>5. QED BY <2>1, <2>2, <2>3, <2>4
<1>2. CASE DispatchFails
  <2>1. WorkerLost(Head(batch).worker) /\ batch # <<>>
    BY <1>2 DEF DispatchFails, Held
  <2>2. Head(batch).worker \in Worker
    BY <2>1, HeadTail DEF Held, UnsentType
  <2>3. QED BY <2>1, <2>2 DEF NetCall
<1>3. CASE FindSocket \/ BuildFrame \/ WriteHead \/ WriteBody \/ WriteFails
  <2>1. UNCHANGED vars
    BY <1>3 DEF FindSocket, BuildFrame, WriteHead, WriteBody, WriteFails
  <2>2. QED BY <2>1 DEF NetCall
<1>4. ASSUME NEW k \in Client, SubmitRequest(k)
      PROVE  NetCall
  <2>1. clients[k] \in Request
    BY <1>4 DEF SubmitRequest, Held
  <2>2. Submit(clients[k]) \/ UNCHANGED vars
    BY <1>4 DEF SubmitRequest
  <2>3. QED BY <2>1, <2>2 DEF NetCall
<1>5. CASE \/ UNCHANGED allVars \/ Start \/ ScheduleCycle \/ RollEpochCall \/ TimePasses
           \/ (\E k \in Client, r \in Request : SubmitTokens(k, r))
           \/ \E r \in Request : CancelRequest(r)
  BY <1>5 DEF allVars, Start, RollEpochCall, TimePasses,
     SubmitTokens, CancelRequest, NetCall
<1>6. QED BY <1>1, <1>2, <1>3, <1>4, <1>5 DEF NetNext, ScheduleStep

(* The threads go on holding what they hold, and a cycle leaves groups to  *)
(* send that have members.                                                 *)
LEMMA HeldKept ==
  ASSUME Held, [NetNext]_allVars, ~ScheduleCycle
  PROVE  Held'
<1>1. CASE UNCHANGED <<clients, batch, sending>>
  BY <1>1 DEF Held
<1>2. CASE FindSocket \/ BuildFrame \/ WriteHead \/ WriteFails
  <2>1. clients' = clients /\ batch' = batch
    BY <1>2 DEF FindSocket, BuildFrame, WriteHead, WriteFails
  <2>2. batch # <<>>
    BY <1>2 DEF FindSocket, BuildFrame, WriteHead, WriteFails, Held
  <2>3. QED BY <2>1, <2>2 DEF Held
<1>3. CASE WriteBody \/ DispatchFails
  <2>1. clients' = clients /\ batch' = Tail(batch) /\ sending' = Idle
    BY <1>3 DEF WriteBody, DispatchFails
  <2>2. batch # <<>>
    BY <1>3 DEF WriteBody, DispatchFails, Held
  <2>3. batch' \in Seq(UnsentType)
    BY <2>1, <2>2, HeadTail DEF Held
  <2>4. Idle.phase = "idle"
    BY DEF Idle
  <2>5. QED BY <2>1, <2>3, <2>4 DEF Held
<1>4. ASSUME NEW k \in Client, SubmitRequest(k) \/ \E r \in Request : SubmitTokens(k, r)
      PROVE  Held'
  <2>1. batch' = batch /\ sending' = sending
    BY <1>4 DEF SubmitRequest, SubmitTokens
  <2>2. clients' = [clients EXCEPT ![k] = None] \/ \E r \in Request : clients' = [clients EXCEPT ![k] = r]
    BY <1>4 DEF SubmitRequest, SubmitTokens
  <2>3. clients' \in [Client -> Request \cup {None}]
    BY <2>2 DEF Held
  <2>4. QED BY <2>1, <2>3 DEF Held
<1>5. CASE UNCHANGED allVars \/ Start \/ (\E r \in Request : CancelRequest(r)) \/ RollEpochCall \/ TimePasses
  BY <1>1, <1>5 DEF allVars, netVars, Start, CancelRequest, RollEpochCall, TimePasses
<1>6. ASSUME NEW c \in Conn, Connect(c) \/ ThreadStep(c) \/ ProcessStep(c) \/ ProcessEnds(c)
      PROVE  UNCHANGED <<clients, batch, sending>>
  BY <1>6 DEF Connect, ThreadStep, StoreSocket, Register, AckHead, AckBody, ReadCompletion,
     ReportResult, RefuseResult, ErrorBody, ConnectionEnds, ProcessStep, ReadAck, ServeDispatch,
     IgnoreFrame, LoseStep, ProcessEnds
<1>7. CASE NetNext
  BY <1>1, <1>2, <1>3, <1>4, <1>5, <1>6, <1>7 DEF NetNext, ScheduleStep
<1>8. QED BY <1>5, <1>7

LEMMA HeldCycle ==
  ASSUME Held, ScheduleCycle, Cardinality(Formed) \in Nat, \A g \in Formed : Unsent(g) \in UnsentType
  PROVE  Held'
<1>1. PICK order \in [1 .. Cardinality(Formed) -> Formed] :
        batch' = [i \in DOMAIN order |-> Unsent(order[i])]
  BY DEF ScheduleCycle
<1>2. batch = <<>> /\ clients' = clients /\ sending' = sending
  BY DEF ScheduleCycle
<1>3. batch' \in Seq(UnsentType)
  BY <1>1, SMTT(20)
<1>4. QED BY <1>2, <1>3 DEF Held

LEMMA UnsentMembers ==
  ASSUME NEW a \in Nat, NEW w, NEW M, Cardinality(M) \in Nat
  PROVE  LET e == Unsent([id |-> a, worker |-> w, outstanding |-> M])
         IN  e.worker = w /\ Range(e.members) = a .. a + Cardinality(M) - 1
<1> DEFINE n == Cardinality(M)
           m == [i \in 1 .. n |-> a + i - 1]
<1>1. n \in Nat
  OBVIOUS
<1> HIDE DEF n
<1>2. Range(m) = a .. a + n - 1
  <2>1. Range(m) = {a + i - 1 : i \in 1 .. n}
    BY DEF Range
  <2>2. ASSUME NEW k \in a .. a + n - 1
        PROVE  k \in {a + i - 1 : i \in 1 .. n}
    <3>1. k - a + 1 \in 1 .. n /\ a + (k - a + 1) - 1 = k
      BY <1>1, SMTT(20)
    <3>2. QED BY <3>1
  <2>3. ASSUME NEW i \in 1 .. n
        PROVE  a + i - 1 \in a .. a + n - 1
    BY <1>1, SMTT(20)
  <2>4. QED BY <2>1, <2>2, <2>3
<1>3. QED BY <1>2 DEF n, Unsent

-----------------------------------------------------------------------------
(* Sockets, threads and the workers the scheduler believes ready.          *)

(* No step but a registration makes a remote worker ready.                 *)
ReadyKept ==
  \A w \in Worker \ {0} : ws'[w].state = "ready" => ws[w].state = "ready" /\ ws'[w].boot = ws[w].boot

WatchInv ==
  /\ Wired /\ socks \in [Worker -> Conn \cup {None}]
  /\ SocketsAreServed /\ ReadyWorkersAreWatched

LEMMA WatchStep ==
  ASSUME ws \in [Worker -> WorkerType], WatchInv, [NetNext]_allVars,
         (\A c \in Conn : ~Register(c) /\ ~ConnectionEnds(c)) => ReadyKept
  PROVE  WatchInv'
<1>1. DOMAIN conn = Conn /\ \A c \in Conn : DOMAIN conn[c] = Fields
  BY DEF WatchInv, Wired
<1>2. ws \in [Worker -> WorkerType] /\ WorkerOf \in [Conn -> Worker \ {0}]
  BY CoordinatorAssumption
<1>3. CASE \A c \in Conn : ~StoreSocket(c) /\ ~Register(c) /\ ~ConnectionEnds(c)
  <2>1. Wired' /\ ConnectionsGoOn /\ socks' = socks /\ ReadyKept
    BY <1>3, ConnectionsQuiet DEF WatchInv
  <2>2. SocketsAreServed'
    BY <2>1 DEF SocketsAreServed, ConnectionsGoOn, GoesOn, WatchInv
  <2>3. ASSUME NEW w \in Worker \ {0}, ws'[w].state = "ready"
        PROVE  \E c \in Conn : WorkerOf[c] = w /\ conn'[c].boot = ws'[w].boot /\ Watching(c)'
    <3>1. ws[w].state = "ready" /\ ws'[w].boot = ws[w].boot
      BY <2>1, <2>3 DEF ReadyKept
    <3>2. PICK c \in Conn : WorkerOf[c] = w /\ conn[c].boot = ws[w].boot /\ Watching(c)
      BY <3>1 DEF WatchInv, ReadyWorkersAreWatched
    <3>3. conn'[c].boot = conn[c].boot /\ Watching(c)'
      BY <2>1, <3>2 DEF ConnectionsGoOn, GoesOn, Watching
    <3>4. QED BY <3>1, <3>2, <3>3
  <2>4. QED BY <2>1, <2>2, <2>3 DEF WatchInv, ReadyWorkersAreWatched
<1>4. ASSUME NEW c \in Conn, NEW t, NEW b,
             \/ conn' = [conn EXCEPT ![c].thread = t] /\ b = conn[c].boot
             \/ conn' = [conn EXCEPT ![c].thread = t, ![c].boot = b]
      PROVE  /\ Wired' /\ conn'[c].thread = t /\ conn'[c].boot = b
             /\ \A e \in Conn \ {c} : conn'[e] = conn[e]
  <2> DEFINE k == conn[c]
  <2>1. /\ DOMAIN conn' = Conn /\ \A e \in Conn \ {c} : conn'[e] = conn[e]
        /\ \/ conn'[c] = [k EXCEPT !.thread = t] /\ b = k.boot
           \/ conn'[c] = [k EXCEPT !.thread = t, !.boot = b]
    BY <1>1, <1>4
  <2>2. DOMAIN k = Fields
    BY <1>1
  <2> HIDE DEF k
  <2>3. DOMAIN conn'[c] = Fields /\ conn'[c].boot = b /\ conn'[c].thread = t
    BY ONLY <2>1, <2>2, ZenonT(60) DEF Fields
  <2>4. QED BY <1>1, <2>1, <2>3 DEF Wired
<1>5. ASSUME NEW c \in Conn, StoreSocket(c)
      PROVE  WatchInv'
  <2>1. /\ conn[c].thread = "accepted" /\ conn' = [conn EXCEPT ![c].thread = "stored"]
        /\ socks' = [socks EXCEPT ![WorkerOf[c]] = c] /\ ws' = ws
    BY <1>5 DEF StoreSocket, vars
  <2>2. /\ Wired' /\ conn'[c].thread = "stored" /\ conn'[c].boot = conn[c].boot
        /\ \A e \in Conn \ {c} : conn'[e] = conn[e]
    BY <1>4, <2>1
  <2>3. SocketsAreServed' /\ socks' \in [Worker -> Conn \cup {None}]
    BY <1>2, <2>1, <2>2, SMTT(20) DEF WatchInv, SocketsAreServed
  <2>4. ReadyWorkersAreWatched'
    BY <2>1, <2>2, SMTT(20) DEF WatchInv, ReadyWorkersAreWatched, Watching
  <2>5. QED BY <2>2, <2>3, <2>4 DEF WatchInv
<1>6. ASSUME NEW c \in Conn, Register(c)
      PROVE  WatchInv'
  <2> DEFINE w == WorkerOf[c]
             boot == ws[w].boot + 1
  <2>1. /\ conn[c].thread = "stored" /\ conn' = [conn EXCEPT ![c].thread = "registered", ![c].boot = boot]
        /\ socks' = socks /\ ws' = [ws EXCEPT ![w] = [state |-> "ready", boot |-> boot, busy |-> 0]]
    BY <1>6 DEF Register, RegisterWorker
  <2>2. w \in Worker \ {0}
    BY <1>2
  <2>3. /\ Wired' /\ conn'[c].thread = "registered" /\ conn'[c].boot = boot
        /\ \A e \in Conn \ {c} : conn'[e] = conn[e]
    BY <1>4, <2>1
  <2> HIDE DEF boot
  <2>4. SocketsAreServed'
    <3>1. socks' = socks
      BY <2>1
    <3>2. QED BY ONLY <2>3, <3>1, WatchInv, ZenonT(60) DEF WatchInv, SocketsAreServed
  <2>5. ws'[w].boot = boot /\ \A v \in Worker \ {w} : ws'[v] = ws[v]
    BY <1>2, <2>1, <2>2
  <2>6. ASSUME NEW v \in Worker \ {0}, ws'[v].state = "ready"
        PROVE  \E e \in Conn : WorkerOf[e] = v /\ conn'[e].boot = ws'[v].boot /\ Watching(e)'
    <3>1. CASE v = w
      BY <2>3, <2>5, <3>1 DEF Watching
    <3>2. CASE v # w
      <4>1. PICK e \in Conn : WorkerOf[e] = v /\ conn[e].boot = ws[v].boot /\ Watching(e)
        BY <2>5, <2>6, <3>2 DEF WatchInv, ReadyWorkersAreWatched
      <4>2. conn'[e] = conn[e]
        BY <2>3, <3>2, <4>1
      <4>3. QED BY <2>5, <3>2, <4>1, <4>2 DEF Watching
    <3>3. QED BY <3>1, <3>2
  <2>7. QED BY <2>1, <2>3, <2>4, <2>6 DEF WatchInv, ReadyWorkersAreWatched
<1>7. ASSUME NEW c \in Conn, ConnectionEnds(c)
      PROVE  WatchInv'
  <2> DEFINE w == WorkerOf[c]
  <2>1. /\ conn' = [conn EXCEPT ![c].thread = "closed"]
        /\ socks' = IF socks[w] = c THEN [socks EXCEPT ![w] = None] ELSE socks
        /\ ws' = [ws EXCEPT ![w].busy = 0, ![w].state = "lost"]
    BY <1>7 DEF ConnectionEnds, WorkerLost
  <2>2. w \in Worker \ {0}
    BY <1>2
  <2>3. /\ Wired' /\ conn'[c].thread = "closed" /\ \A e \in Conn \ {c} : conn'[e] = conn[e]
    BY <1>4, <2>1
  <2>4. ws'[w].state = "lost" /\ \A v \in Worker \ {w} : ws'[v] = ws[v]
    BY <1>2, <2>1, <2>2 DEF WorkerType
  <2>5. socks' \in [Worker -> Conn \cup {None}]
    BY <2>1 DEF WatchInv
  <2>6. SocketsAreServed'
    BY <2>1, <2>2, <2>3, SMTT(20) DEF WatchInv, SocketsAreServed
  <2>7. ASSUME NEW v \in Worker \ {0}, ws'[v].state = "ready"
        PROVE  \E e \in Conn : WorkerOf[e] = v /\ conn'[e].boot = ws'[v].boot /\ Watching(e)'
    <3>1. v # w
      BY <2>4, <2>7
    <3>2. PICK e \in Conn : WorkerOf[e] = v /\ conn[e].boot = ws[v].boot /\ Watching(e)
      BY <2>4, <2>7, <3>1 DEF WatchInv, ReadyWorkersAreWatched
    <3>3. conn'[e] = conn[e]
      BY <2>3, <3>1, <3>2
    <3>4. QED BY <2>4, <3>1, <3>2, <3>3 DEF Watching
  <2>8. QED BY <2>3, <2>5, <2>6, <2>7 DEF WatchInv, ReadyWorkersAreWatched
<1>8. QED BY <1>3, <1>5, <1>6, <1>7

LEMMA WatchInit == NetInit => WatchInv
<1> SUFFICES ASSUME NetInit PROVE WatchInv
  OBVIOUS
<1>1. Wired
  BY DEF NetInit, Wired, Fields
<1>2. socks \in [Worker -> Conn \cup {None}] /\ SocketsAreServed
  BY DEF NetInit, SocketsAreServed
<1>3. ReadyWorkersAreWatched
  BY DEF NetInit, Init, ReadyWorkersAreWatched
<1>4. QED BY <1>1, <1>2, <1>3 DEF WatchInv

LEMMA BootsStep ==
  ASSUME Wired, Sound, [NetNext]_allVars, ws \in [Worker -> WorkerType],
         \A w \in Worker : ws'[w].boot \in Nat /\ ws[w].boot <= ws'[w].boot
  PROVE  \A c \in Conn : conn'[c].boot \in Nat /\ conn'[c].boot <= ws'[WorkerOf[c]].boot
<1>1. /\ WorkerOf \in [Conn -> Worker \ {0}] /\ \A w \in Worker : ws[w].boot \in Nat
      /\ ws \in [Worker -> WorkerType]
  BY CoordinatorAssumption DEF WorkerType
<1>2. ASSUME NEW c \in Conn
      PROVE  conn'[c].boot \in Nat /\ conn'[c].boot <= ws'[WorkerOf[c]].boot
  <2> DEFINE w == WorkerOf[c]
  <2>1. /\ w \in Worker /\ conn[c].boot \in Nat /\ conn[c].boot <= ws[w].boot
        /\ ws[w].boot \in Nat /\ ws'[w].boot \in Nat /\ ws[w].boot <= ws'[w].boot
    BY <1>1 DEF Sound
  <2>2. conn'[c].boot = conn[c].boot \/ (Register(c) /\ conn'[c].boot = ws[w].boot + 1)
    BY BootsKept
  <2>3. CASE Register(c)
    <3>1. ws' = [ws EXCEPT ![w] = [state |-> "ready", boot |-> ws[w].boot + 1, busy |-> 0]]
      BY <2>3 DEF Register, RegisterWorker
    <3>2. ws'[w].boot = ws[w].boot + 1
      BY <1>1, <2>1, <3>1
    <3>3. QED BY <2>1, <2>2, <3>2, SMTT(20)
  <2>4. QED BY <2>1, <2>2, <2>3, SMTT(20)
<1>3. QED BY <1>2

LEMMA SoundInit == NetInit => Sound
<1> SUFFICES ASSUME NetInit PROVE Sound
  OBVIOUS
<1>1. ASSUME NEW c \in Conn PROVE Stocked(conn[c])
  <2>1. /\ conn[c].thread = "none" /\ conn[c].proc = "none" /\ conn[c].down = <<>>
        /\ conn[c].up = <<>> /\ conn[c].reading = NoResults
    BY DEF NetInit
  <2>2. QED BY <2>1, EmptyIsSequence DEF Stocked
<1>2. \A c \in Conn : conn[c].boot \in Nat /\ conn[c].boot <= ws[WorkerOf[c]].boot
  BY CoordinatorAssumption, SMTT(20) DEF NetInit, Init
<1>3. \A w \in Worker : socks[w] = None
  BY DEF NetInit
<1>4. batch = <<>> /\ sending = Idle
  BY DEF NetInit
<1>5. SendingOK
  BY <1>4, EmptyIsSequence DEF SendingOK, InDispatch, Idle
<1>6. QED BY <1>1, <1>2, <1>3, <1>5 DEF Sound

LEMMA TypesOfNet == Held /\ WatchInv /\ Sound => NetTypeOK
<1> SUFFICES ASSUME Held, WatchInv, Sound PROVE NetTypeOK
  OBVIOUS
<1>1. ASSUME NEW c \in Conn
      PROVE  /\ conn[c].thread \in {"none", "accepted", "stored", "registered", "acking", "reading",
                                    "refusing", "closed"}
             /\ conn[c].proc \in {"none", "waiting", "serving", "wedged", "gone"}
             /\ conn[c].boot <= ws[WorkerOf[c]].boot
             /\ \A i \in DOMAIN conn[c].up : conn[c].up[i].results # <<>>
  BY DEF Sound, Stocked, AnswerOK, Range
<1>2. socks \in [Worker -> Conn \cup {None}] /\ (sending.phase # "idle" => batch # <<>>) /\ SendingOK
  BY DEF Sound, WatchInv, Held
<1>3. QED BY <1>1, <1>2 DEF NetTypeOK, SendingOK, InDispatch

-----------------------------------------------------------------------------
(* Sequences put end to end.                                               *)

(* Induction up to n: a set that holds 0, and of every number below n that *)
(* it holds the next one, holds them all.                                  *)
LEMMA CountingUp ==
  ASSUME NEW n \in Nat, NEW S, 0 \in S, \A m \in 0 .. n - 1 : m \in S => m + 1 \in S
  PROVE  0 .. n \subseteq S
<1> DEFINE R   == OpToRel(<, Nat)
           bad == {m \in 0 .. n : m \notin S}
<1>1. SUFFICES ASSUME bad # {} PROVE FALSE
  OBVIOUS
<1>2. bad \subseteq Nat
  BY SMTT(20)
<1>3. \A x, y \in Nat : x < y => <<x, y>> \in R
  BY SMTT(20) DEF OpToRel
<1>4. PICK m \in bad : \A k \in bad : <<k, m>> \notin R
  <2> HIDE DEF R, bad
  <2>1. IsWellFoundedOn(R, Nat)
    BY NatLessThanWellFounded DEF R
  <2>2. QED BY <1>1, <1>2, <2>1, WFMin
<1>5. m \in Nat /\ m <= n /\ m # 0
  BY SMTT(20)
<1>6. m - 1 \in 0 .. n - 1 /\ m - 1 \in 0 .. n /\ m - 1 \in Nat /\ m - 1 < m /\ (m - 1) + 1 = m
  BY <1>5, SMTT(20)
<1>7. m - 1 \notin bad
  BY <1>3, <1>4, <1>5, <1>6
<1>8. QED BY <1>6, <1>7

(* The recursive functions of DispatchFrame: ends that add up, and slices  *)
(* that are joined, for any counts c and sequences x.  They exist.         *)
Adds(e, c, n)  == e = [i \in 0 .. n |-> IF i = 0 THEN 0 ELSE e[i - 1] + c[i]]
Joins(s, x, n) == s = [i \in 0 .. n |-> IF i = 0 THEN <<>> ELSE s[i - 1] \o x[i]]

LEMMA AddsExists ==
  ASSUME NEW n \in Nat, NEW c
  PROVE  \E e : Adds(e, c, n)
<1> DEFINE S == {m \in 0 .. n : \E e : Adds(e, c, m)}
<1>1. 0 \in S
  <2> DEFINE e == [i \in 0 .. 0 |-> 0]
  <2>1. e = [i \in 0 .. 0 |-> IF i = 0 THEN 0 ELSE e[i - 1] + c[i]]
    BY SMTT(20)
  <2> HIDE DEF e
  <2>2. \E t : Adds(t, c, 0)
    BY <2>1 DEF Adds
  <2>3. 0 \in 0 .. n
    BY SMTT(20)
  <2>4. QED BY <2>2, <2>3
<1>2. ASSUME NEW m \in 0 .. n - 1, m \in S
      PROVE  m + 1 \in S
  <2>1. PICK e : Adds(e, c, m)
    BY <1>2
  <2>2. m \in Nat /\ m + 1 \in 0 .. n /\ m + 1 # 0 /\ m + 1 - 1 = m
    BY SMTT(20)
  <2> DEFINE d == [i \in 0 .. m + 1 |-> IF i = m + 1 THEN e[m] + c[m + 1] ELSE e[i]]
  <2>3. ASSUME NEW i \in 0 .. m + 1
        PROVE  d[i] = IF i = 0 THEN 0 ELSE d[i - 1] + c[i]
    <3>1. CASE i = m + 1
      BY <2>2, <3>1, SMTT(20)
    <3>2. CASE i # m + 1
      <4>1. i \in 0 .. m /\ d[i] = e[i] /\ (i # 0 => i - 1 \in 0 .. m + 1 /\ i - 1 # m + 1)
        BY <2>2, <3>2, SMTT(20)
      <4>2. e[i] = IF i = 0 THEN 0 ELSE e[i - 1] + c[i]
        BY <2>1, <4>1 DEF Adds
      <4>3. QED BY <4>1, <4>2
    <3>3. QED BY <3>1, <3>2
  <2>4. d = [i \in 0 .. m + 1 |-> d[i]]
    OBVIOUS
  <2> HIDE DEF d
  <2>5. Adds(d, c, m + 1)
    BY <2>3, <2>4 DEF Adds
  <2>6. QED BY <2>2, <2>5
<1>3. n \in 0 .. n
  BY SMTT(20)
<1> HIDE DEF S
<1>4. n \in S
  BY <1>1, <1>2, <1>3, CountingUp
<1>5. QED BY <1>4 DEF S

LEMMA JoinsExists ==
  ASSUME NEW n \in Nat, NEW x
  PROVE  \E s : Joins(s, x, n)
<1> DEFINE S == {m \in 0 .. n : \E s : Joins(s, x, m)}
<1>1. 0 \in S
  <2> DEFINE s == [i \in 0 .. 0 |-> <<>>]
  <2>1. s = [i \in 0 .. 0 |-> IF i = 0 THEN <<>> ELSE s[i - 1] \o x[i]]
    <3>1. \A i \in 0 .. 0 : i = 0
      BY SMTT(20)
    <3>2. QED BY <3>1
  <2> HIDE DEF s
  <2>2. \E t : Joins(t, x, 0)
    BY <2>1 DEF Joins
  <2>3. 0 \in 0 .. n
    BY SMTT(20)
  <2>4. QED BY <2>2, <2>3
<1>2. ASSUME NEW m \in 0 .. n - 1, m \in S
      PROVE  m + 1 \in S
  <2>1. PICK s : Joins(s, x, m)
    BY <1>2
  <2>2. m \in Nat /\ m + 1 \in 0 .. n /\ m + 1 # 0 /\ m + 1 - 1 = m /\ m \in 0 .. m + 1 /\ m # m + 1
    BY SMTT(20)
  <2> DEFINE d == [i \in 0 .. m + 1 |-> IF i = m + 1 THEN s[m] \o x[m + 1] ELSE s[i]]
  <2>3. ASSUME NEW i \in 0 .. m + 1
        PROVE  d[i] = IF i = 0 THEN <<>> ELSE d[i - 1] \o x[i]
    <3>1. CASE i = m + 1
      <4>1. i - 1 = m /\ i # 0
        BY <2>2, <3>1, SMTT(20)
      <4>2. d[i] = s[m] \o x[i] /\ d[m] = s[m]
        BY <2>2, <3>1
      <4> HIDE DEF d
      <4>3. QED BY <4>1, <4>2
    <3>2. CASE i # m + 1
      <4>1. i \in 0 .. m /\ (i # 0 => i - 1 \in 0 .. m + 1 /\ i - 1 # m + 1)
        BY <2>2, <3>2, SMTT(20)
      <4>2. s[i] = IF i = 0 THEN <<>> ELSE s[i - 1] \o x[i]
        BY <2>1, <4>1 DEF Joins
      <4>3. QED BY <3>2, <4>1, <4>2
    <3>3. QED BY <3>1, <3>2
  <2>4. d = [i \in 0 .. m + 1 |-> d[i]]
    OBVIOUS
  <2> HIDE DEF d
  <2>5. Joins(d, x, m + 1)
    BY <2>3, <2>4 DEF Joins
  <2>6. QED BY <2>2, <2>5
<1>3. n \in 0 .. n
  BY SMTT(20)
<1> HIDE DEF S
<1>4. n \in S
  BY <1>1, <1>2, <1>3, CountingUp
<1>5. QED BY <1>4 DEF S

(* A place before an end is before every later end.                        *)
LEMMA Further ==
  ASSUME NEW a \in Nat, NEW b \in Nat, NEW c \in Nat, NEW d \in Nat, NEW n \in Nat,
         b = a + n, b <= c
  PROVE  b <= c + d /\ \A j \in 1 .. n : a + j \in 1 .. c
BY SMTT(20)

(* Then a sequence that was joined is found between its two ends.          *)
Sized(x, c, T, n) == \A i \in 1 .. n : c[i] \in Nat /\ x[i] \in Seq(T) /\ Len(x[i]) = c[i]

At(s, a, x, n) == \A j \in 1 .. n : s[a + j] = x[j]

Between(s, e, x, c, T, n) ==
  /\ s[n] \in Seq(T) /\ Len(s[n]) = e[n]
  /\ \A i \in 1 .. n : /\ e[i - 1] \in Nat /\ e[i] \in Nat /\ e[i] <= e[n] /\ e[i] = e[i - 1] + c[i]
                       /\ At(s[n], e[i - 1], x[i], c[i])

LEMMA JoinedFacts ==
  ASSUME NEW T, NEW n \in Nat, NEW c, NEW x, Sized(x, c, T, n),
         NEW e, Adds(e, c, n), NEW s, Joins(s, x, n)
  PROVE  Between(s, e, x, c, T, n)
<1> DEFINE P(k) == /\ s[k] \in Seq(T) /\ e[k] \in Nat /\ Len(s[k]) = e[k]
                   /\ \A i \in 1 .. k : /\ e[i - 1] \in Nat /\ e[i] \in Nat /\ e[i] <= e[k]
                                        /\ e[i] = e[i - 1] + c[i]
                                        /\ \A j \in 1 .. c[i] : s[k][e[i - 1] + j] = x[i][j]
           S == {k \in 0 .. n : P(k)}
<1>1. e[0] = 0 /\ s[0] = <<>> /\ \A i \in 1 .. n : e[i] = e[i - 1] + c[i] /\ s[i] = s[i - 1] \o x[i]
  <2>1. 0 \in 0 .. n /\ \A i \in 1 .. n : i \in 0 .. n /\ i # 0
    BY SMTT(20)
  <2>2. QED BY <2>1 DEF Adds, Joins
<1>2. 0 \in S
  <2>1. 0 \in 0 .. n /\ 0 \in Nat /\ (1 .. 0) = {}
    BY SMTT(20)
  <2>2. <<>> \in Seq(T) /\ Len(<<>>) = 0
    BY ONLY SMTT(20)
  <2>3. QED BY <1>1, <2>1, <2>2
<1>3. ASSUME NEW k \in 0 .. n - 1, k \in S
      PROVE  k + 1 \in S
  <2> DEFINE h == k + 1
  <2>1. k \in Nat /\ h \in 1 .. n /\ h - 1 = k /\ h \in 0 .. n /\ \A i \in 1 .. h : i \in 1 .. k \/ i = h
    BY SMTT(20)
  <2> HIDE DEF h
  <2>2. P(k)
    BY <1>3
  <2>3. e[h] = e[k] + c[h] /\ s[h] = s[k] \o x[h]
    <3>1. e[h] = e[h - 1] + c[h] /\ s[h] = s[h - 1] \o x[h]
      BY ONLY <1>1, <2>1, ZenonT(60)
    <3>2. QED BY ONLY <2>1, <3>1, ZenonT(60)
  <2>4. x[h] \in Seq(T) /\ Len(x[h]) = c[h] /\ c[h] \in Nat
    BY <2>1 DEF Sized
  <2>5. /\ s[k] \in Seq(T) /\ e[k] \in Nat /\ Len(s[k]) = e[k]
        /\ s[h] \in Seq(T) /\ Len(s[h]) = e[h]
        /\ \A j \in 1 .. e[k] : s[h][j] = s[k][j]
        /\ \A j \in 1 .. c[h] : s[h][e[k] + j] = x[h][j]
    <3>1. s[k] \in Seq(T) /\ e[k] \in Nat /\ Len(s[k]) = e[k]
      BY <2>2
    <3> DEFINE u == s[k]
               v == x[h]
    <3>2. u \in Seq(T) /\ v \in Seq(T)
      BY <2>4, <3>1
    <3> HIDE DEF u, v
    <3>3. /\ u \o v \in Seq(T) /\ Len(u \o v) = Len(u) + Len(v)
          /\ \A j \in 1 .. Len(u) : (u \o v)[j] = u[j]
          /\ \A j \in 1 .. Len(v) : (u \o v)[Len(u) + j] = v[j]
      BY ONLY <3>2, SMTT(20)
    <3>4. QED BY ONLY <2>3, <2>4, <3>1, <3>3, ZenonT(60) DEF u, v
  <2>6. e[h] \in Nat /\ e[h] <= e[h]
    BY ONLY <2>3, <2>4, <2>5, SMTT(20)
  <2>7. ASSUME NEW i \in 1 .. k
        PROVE  /\ e[i - 1] \in Nat /\ e[i] \in Nat /\ e[i] <= e[h] /\ e[i] = e[i - 1] + c[i]
               /\ \A j \in 1 .. c[i] : s[h][e[i - 1] + j] = x[i][j]
    <3>1. /\ e[i - 1] \in Nat /\ e[i] \in Nat /\ e[i] <= e[k] /\ e[i] = e[i - 1] + c[i]
          /\ \A j \in 1 .. c[i] : s[k][e[i - 1] + j] = x[i][j]
      BY <2>2
    <3>2. i \in 1 .. n
      BY SMTT(20)
    <3>3. c[i] \in Nat
      BY <3>2 DEF Sized
    <3>4. e[i] <= e[h] /\ \A j \in 1 .. c[i] : e[i - 1] + j \in 1 .. e[k]
      <4>1. e[i] <= e[k] + c[h] /\ \A j \in 1 .. c[i] : e[i - 1] + j \in 1 .. e[k]
        BY ONLY <2>4, <2>5, <3>1, <3>3, Further, ZenonT(60)
      <4>2. QED BY ONLY <2>3, <4>1, ZenonT(60)
    <3>5. QED BY <2>5, <3>1, <3>4
  <2>8. P(h)
    <3>1. e[h - 1] = e[k]
      BY ONLY <2>1, ZenonT(60)
    <3>2. /\ e[h - 1] \in Nat /\ e[h] \in Nat /\ e[h] <= e[h]
          /\ e[h] = e[h - 1] + c[h]
          /\ \A j \in 1 .. c[h] : s[h][e[h - 1] + j] = x[h][j]
      BY ONLY <2>3, <2>5, <2>6, <3>1, ZenonT(60)
    <3>3. ASSUME NEW i \in 1 .. h
          PROVE  /\ e[i - 1] \in Nat /\ e[i] \in Nat /\ e[i] <= e[h] /\ e[i] = e[i - 1] + c[i]
                 /\ \A j \in 1 .. c[i] : s[h][e[i - 1] + j] = x[i][j]
      <4>1. CASE i \in 1 .. k
        BY <2>7, <4>1
      <4>2. CASE i = h
        BY ONLY <3>2, <4>2, ZenonT(60)
      <4>3. QED BY <2>1, <4>1, <4>2
    <3>4. QED BY <2>5, <2>6, <3>3
  <2>9. QED BY <2>1, <2>8 DEF h
<1>4. n \in 0 .. n
  BY SMTT(20)
<1>5. n \in S
  <2> HIDE DEF S
  <2>1. QED BY <1>2, <1>3, <1>4, CountingUp
<1>6. QED BY <1>5 DEF Between, At

(* What lies between two ends is what SubSeq cuts out.                     *)
LEMMA CutOut ==
  ASSUME NEW T, NEW s \in Seq(T), NEW a \in Nat, NEW n \in Nat, a + n <= Len(s),
         NEW x \in Seq(T), Len(x) = n, At(s, a, x, n)
  PROVE  SubSeq(s, a + 1, a + n) = x
<1> DEFINE t == SubSeq(s, a + 1, a + n)
<1>1. t \in Seq(T) /\ Len(t) = n /\ \A j \in 1 .. n : t[j] = s[a + j]
  BY SMTT(20)
<1>2. \A j \in 1 .. n : t[j] = x[j]
  BY <1>1 DEF At
<1> HIDE DEF t
<1>3. t = x
  BY <1>1, <1>2, SMTT(20)
<1>4. QED BY <1>3 DEF t

(* Where the slices of a frame end, and the slices one after the other.    *)
EndsTable(e, members) ==
  e = [i \in 0 .. Len(members) |-> IF i = 0 THEN 0 ELSE e[i - 1] + Count(DispatchOf(members[i]))]

SlicesTable(s, members) ==
  s = [i \in 0 .. Len(members) |-> IF i = 0 THEN <<>> ELSE s[i - 1] \o SliceOf(DispatchOf(members[i]))]

LEMMA FrameIs ==
  ASSUME NEW members
  PROVE  LET f == DispatchFrame(members) IN
         /\ f.kind = "dispatch" /\ f.members = members
         /\ f.tokens = (CHOOSE s : SlicesTable(s, members))[Len(members)]
         /\ f.offsets = [i \in 1 .. Len(members) + 1 |-> (CHOOSE e : EndsTable(e, members))[i - 1]]
BY DEF DispatchFrame, EndsTable, SlicesTable

(* Of any sequence of members, their slices are cut out of the frame.      *)
LEMMA SliceIsSequence ==
  ASSUME NEW d, Count(d) \in Nat, NEW T, NEW R, R \subseteq T, \A j \in 1 .. Count(d) : SliceOf(d)[j] \in R
  PROVE  SliceOf(d) \in Seq(T) /\ Len(SliceOf(d)) = Count(d)
<1> DEFINE n == Count(d)
           x == SliceOf(d)
<1>1. DOMAIN x = 1 .. n /\ x = [j \in 1 .. n |-> x[j]]
  BY DEF SliceOf
<1> HIDE DEF n, x
<1>2. n \in Nat /\ \A j \in 1 .. n : x[j] \in T
  BY DEF n, x
<1>3. [j \in 1 .. n |-> x[j]] \in Seq(T) /\ Len([j \in 1 .. n |-> x[j]]) = n
  BY ONLY <1>2, SMTT(20)
<1>4. QED BY <1>1, <1>3 DEF n, x

LEMMA SlicesCutOut ==
  ASSUME NEW members, Len(members) \in Nat,
         \A i \in 1 .. Len(members) : Count(DispatchOf(members[i])) \in Nat
  PROVE  \A i \in 1 .. Len(members) :
           Cut(DispatchFrame(members), i) = SliceOf(DispatchOf(members[i]))
<1> DEFINE n == Len(members)
           c == [i \in 1 .. n |-> Count(DispatchOf(members[i]))]
           x == [i \in 1 .. n |-> SliceOf(DispatchOf(members[i]))]
           f == DispatchFrame(members)
           e == CHOOSE a : EndsTable(a, members)
           s == CHOOSE a : SlicesTable(a, members)
           T == UNION {{x[i][j] : j \in 1 .. c[i]} : i \in 1 .. n}
<1>1. n \in Nat /\ \A i \in 1 .. n : c[i] \in Nat
  OBVIOUS
<1>2. Sized(x, c, T, n)
  <2> SUFFICES ASSUME NEW i \in 1 .. n
               PROVE  c[i] \in Nat /\ x[i] \in Seq(T) /\ Len(x[i]) = c[i]
    BY DEF Sized
  <2> DEFINE d == DispatchOf(members[i])
             R == {x[i][j] : j \in 1 .. c[i]}
  <2>1. x[i] = SliceOf(d) /\ c[i] = Count(d) /\ c[i] \in Nat
    BY <1>1
  <2> HIDE DEF x, c, d
  <2>2. R \subseteq T /\ \A j \in 1 .. c[i] : x[i][j] \in R
    OBVIOUS
  <2> HIDE DEF T, R
  <2>3. QED BY <2>1, <2>2, SliceIsSequence
<1>3. \A i \in 0 .. n : i = 0 \/ i \in 1 .. n
  BY <1>1, SMTT(20)
<1>4. Adds(e, c, n)
  <2>1. \A a : EndsTable(a, members) <=> Adds(a, c, n)
    <3> SUFFICES ASSUME NEW a PROVE EndsTable(a, members) <=> Adds(a, c, n)
      OBVIOUS
    <3>1. \A i \in 0 .. n : (IF i = 0 THEN 0 ELSE a[i - 1] + Count(DispatchOf(members[i]))) =
                            (IF i = 0 THEN 0 ELSE a[i - 1] + c[i])
      BY <1>3
    <3> HIDE DEF c
    <3>2. [i \in 0 .. n |-> IF i = 0 THEN 0 ELSE a[i - 1] + Count(DispatchOf(members[i]))] =
          [i \in 0 .. n |-> IF i = 0 THEN 0 ELSE a[i - 1] + c[i]]
      BY ONLY <3>1, ZenonT(60)
    <3>3. QED BY <3>2 DEF EndsTable, Adds
  <2>2. \E a : Adds(a, c, n)
    BY <1>1, AddsExists
  <2> HIDE DEF c, n
  <2>3. EndsTable(e, members)
    BY <2>1, <2>2
  <2>4. QED BY <2>1, <2>3
<1>5. Joins(s, x, n)
  <2>1. \A a : SlicesTable(a, members) <=> Joins(a, x, n)
    <3> SUFFICES ASSUME NEW a PROVE SlicesTable(a, members) <=> Joins(a, x, n)
      OBVIOUS
    <3>1. \A i \in 0 .. n : (IF i = 0 THEN <<>> ELSE a[i - 1] \o SliceOf(DispatchOf(members[i]))) =
                            (IF i = 0 THEN <<>> ELSE a[i - 1] \o x[i])
      BY <1>3
    <3> HIDE DEF x
    <3>2. [i \in 0 .. n |-> IF i = 0 THEN <<>> ELSE a[i - 1] \o SliceOf(DispatchOf(members[i]))] =
          [i \in 0 .. n |-> IF i = 0 THEN <<>> ELSE a[i - 1] \o x[i]]
      BY ONLY <3>1, ZenonT(60)
    <3>3. QED BY <3>2 DEF SlicesTable, Joins
  <2>2. \E a : Joins(a, x, n)
    BY <1>1, JoinsExists
  <2> HIDE DEF x, n
  <2>3. SlicesTable(s, members)
    BY <2>1, <2>2
  <2>4. QED BY <2>1, <2>3
<1>6. f.tokens = s[n] /\ f.offsets = [i \in 1 .. n + 1 |-> e[i - 1]]
  BY FrameIs
<1>7. Between(s, e, x, c, T, n)
  <2> HIDE DEF n, c, x, e, s, T
  <2>1. QED BY <1>1, <1>2, <1>4, <1>5, JoinedFacts
<1>8. \A i \in 1 .. n : x[i] = SliceOf(DispatchOf(members[i]))
  OBVIOUS
<1> HIDE DEF n, c, x, e, s, T, f
<1>9. ASSUME NEW i \in 1 .. n
      PROVE  Cut(f, i) = x[i]
  <2> DEFINE h == i + 1
  <2>1. /\ h <= n + 1 /\ i \in 1 .. n + 1 /\ h \in 1 .. n + 1 /\ h - 1 = i
        /\ Len([k \in 1 .. n + 1 |-> e[k - 1]]) = n + 1
    BY <1>1, SMTT(20)
  <2> HIDE DEF h
  <2>2. f.offsets[i] = e[i - 1] /\ f.offsets[h] = e[h - 1] /\ Len(f.offsets) = n + 1
    BY <1>6, <2>1
  <2>3. /\ s[n] \in Seq(T) /\ Len(s[n]) = e[n]
        /\ e[i - 1] \in Nat /\ e[i] <= e[n] /\ e[i] = e[i - 1] + c[i] /\ At(s[n], e[i - 1], x[i], c[i])
    BY <1>7 DEF Between
  <2>4. f.offsets[h] = e[i]
    BY <2>1, <2>2
  <2>5. Cut(f, i) = SubSeq(s[n], e[i - 1] + 1, e[i - 1] + c[i])
    <3>1. h <= Len(f.offsets) /\ f.offsets[h] <= Len(f.tokens)
      BY <1>6, <2>1, <2>2, <2>3, <2>4
    <3>2. Cut(f, i) = SubSeq(f.tokens, f.offsets[i] + 1, f.offsets[h])
      BY <3>1 DEF Cut, h
    <3>3. QED BY ONLY <1>6, <2>2, <2>3, <2>4, <3>2, ZenonT(60)
  <2>6. e[i - 1] + c[i] <= Len(s[n])
    BY ONLY <2>3, ZenonT(60)
  <2>7. c[i] \in Nat /\ x[i] \in Seq(T) /\ Len(x[i]) = c[i]
    BY <1>2 DEF Sized
  <2>8. QED BY ONLY <2>3, <2>5, <2>6, <2>7, CutOut, ZenonT(60)
<1>10. QED BY <1>8, <1>9 DEF n, f

-----------------------------------------------------------------------------
(* Whose tokens a frame and an answer carry.                               *)

Named(g) == \E d \in issued : d.gen = g

OwnTokens(g, s) ==
  \E d \in issued : /\ d.gen = g
                    /\ \E n \in PromptLengths[d.req] :
                         s = [j \in 1 .. Count(d) |-> <<d.req, n, From(d) + j>>]

FrameCut(f) == f.kind = "dispatch" => \A i \in DOMAIN f.members : OwnTokens(f.members[i], Cut(f, i))

AnswerOwn(a) ==
  \A i \in DOMAIN a.results : a.results[i].outcome # "retryable_failure" =>
                                OwnTokens(a.results[i].gen, a.results[i].ran)

(* What the scheduler says of the dispatches.                              *)
Measured == \A d \in issued : d.req \in Request /\ Count(d) \in Nat

DispatchesKept ==
  \A d \in issued : \E e \in issued' : e.gen = d.gen /\ e.req = d.req /\ e.chunk = d.chunk

LEMMA OwnKept ==
  ASSUME DispatchesKept
  PROVE  /\ \A g : Named(g) => Named(g)'
         /\ \A f : FrameCut(f) => FrameCut(f)'
         /\ \A a : AnswerOwn(a) => AnswerOwn(a)'
<1>1. \A g : Named(g) => Named(g)'
  BY DEF Named, DispatchesKept
<1>2. ASSUME NEW g, NEW s, OwnTokens(g, s)
      PROVE  OwnTokens(g, s)'
  <2>1. PICK d \in issued : d.gen = g /\ \E n \in PromptLengths[d.req] :
                              s = [j \in 1 .. Count(d) |-> <<d.req, n, From(d) + j>>]
    BY <1>2 DEF OwnTokens
  <2>2. PICK e \in issued' : e.gen = d.gen /\ e.req = d.req /\ e.chunk = d.chunk
    BY DEF DispatchesKept
  <2>3. Count(e) = Count(d) /\ From(e) = From(d)
    BY <2>2 DEF Count, From
  <2>4. e.gen = g /\ \E n \in PromptLengths[e.req] :
                       s = [j \in 1 .. Count(e) |-> <<e.req, n, From(e) + j>>]
    BY ONLY <2>1, <2>2, <2>3, ZenonT(60)
  <2>5. QED BY <2>4 DEF OwnTokens, Count, From
<1>3. \A f : FrameCut(f) => FrameCut(f)'
  BY <1>2 DEF FrameCut
<1>4. \A a : AnswerOwn(a) => AnswerOwn(a)'
  BY <1>2 DEF AnswerOwn
<1>5. QED BY <1>1, <1>3, <1>4

(* A frame is built of the members' own slices.                            *)
LEMMA BuiltOwn ==
  ASSUME Measured, NEW members \in Seq(Nat), \A g \in Range(members) : Named(g),
         \A r \in Request : tokens[r] \in PromptLengths[r] \cup {None}, BuffersCover(members)
  PROVE  FrameCut(DispatchFrame(members))
<1> DEFINE f == DispatchFrame(members)
<1>1. f.members = members
  BY FrameIs
<1>2. Len(members) \in Nat /\ DOMAIN members = 1 .. Len(members)
  BY SMTT(20)
<1>3. ASSUME NEW i \in 1 .. Len(members)
      PROVE  /\ DispatchOf(members[i]) \in issued /\ DispatchOf(members[i]).gen = members[i]
  <2>1. \E d \in issued : d.gen = members[i]
    BY <1>2 DEF Range, Named
  <2>2. QED BY <2>1 DEF DispatchOf
<1>4. \A i \in 1 .. Len(members) : Count(DispatchOf(members[i])) \in Nat
  BY <1>3 DEF Measured
<1>5. ASSUME NEW i \in 1 .. Len(members)
      PROVE  OwnTokens(members[i], Cut(f, i))
  <2> DEFINE d == DispatchOf(members[i])
  <2>1. Cut(f, i) = SliceOf(d)
    BY <1>2, <1>4, SlicesCutOut
  <2>2. d \in issued /\ d.gen = members[i] /\ d.req \in Request
    BY <1>3 DEF Measured
  <2>3. tokens[d.req] # None
    BY <1>2 DEF BuffersCover
  <2> HIDE DEF d, f
  <2>4. tokens[d.req] \in PromptLengths[d.req]
    BY <2>2, <2>3
  <2>5. QED BY <2>1, <2>2, <2>4 DEF OwnTokens, SliceOf
<1>6. QED BY <1>1, <1>2, <1>5 DEF FrameCut

(* And whatever the executor, what it ran on is what was cut out.          *)
LEMMA ServedOwn ==
  ASSUME Measured, \A d, e \in issued : d.gen = e.gen => d = e, NEW f, f.kind = "dispatch", FrameCut(f),
         NEW results \in (IF DeviceFaults THEN CudaResults(f) ELSE {CpuResults(f)}), NEW epo
  PROVE  AnswerOwn([epoch |-> epo, results |-> results])
<1>1. ASSUME NEW i \in DOMAIN f.members
      PROVE  OwnTokens(f.members[i], Resolved(f, i))
  <2> DEFINE g == f.members[i]
             s == Cut(f, i)
  <2>1. OwnTokens(g, s)
    BY DEF FrameCut
  <2>2. PICK d \in issued : d.gen = g /\ \E n \in PromptLengths[d.req] :
                              s = [j \in 1 .. Count(d) |-> <<d.req, n, From(d) + j>>]
    BY <2>1 DEF OwnTokens
  <2>3. DispatchOf(g) = d
    <3>1. DispatchOf(g) \in issued /\ DispatchOf(g).gen = g
      BY <2>2 DEF DispatchOf
    <3>2. QED BY <2>2, <3>1
  <2>4. Count(d) \in Nat
    BY DEF Measured
  <2> DEFINE k == Count(d)
  <2>5. Len(s) = k /\ SubSeq(s, 1, k) = s
    <3>1. \E v : s = [j \in 1 .. k |-> v[j]]
      <4>1. PICK n \in PromptLengths[d.req] : s = [j \in 1 .. k |-> <<d.req, n, From(d) + j>>]
        BY <2>2
      <4> DEFINE v == [j \in 1 .. k |-> <<d.req, n, From(d) + j>>]
      <4>2. \A j \in 1 .. k : v[j] = <<d.req, n, From(d) + j>>
        OBVIOUS
      <4>3. s = [j \in 1 .. k |-> v[j]]
        BY <4>1
      <4>4. QED BY <4>3
    <3> HIDE DEF k, s
    <3>2. PICK v : s = [j \in 1 .. k |-> v[j]]
      BY <3>1
    <3>3. k \in Nat
      BY <2>4 DEF k
    <3>4. QED BY ONLY <3>2, <3>3, SMTT(20)
  <2>6. Len(s) >= k
    BY <2>4, <2>5, SMTT(20)
  <2>7. Resolved(f, i) = s
    BY <2>3, <2>5, <2>6 DEF Resolved
  <2>8. QED BY <2>1, <2>7
<1>2. ASSUME NEW i \in DOMAIN f.members
      PROVE  LET x == Executed(f, i)
                 y == [x EXCEPT !.outcome = "non_retryable_failure"]
             IN  OwnTokens(x.gen, x.ran) /\ OwnTokens(y.gen, y.ran)
  BY <1>1 DEF Executed
<1>3. /\ DOMAIN results = DOMAIN f.members
      /\ \A i \in DOMAIN f.members : results[i].outcome # "retryable_failure" =>
                                       OwnTokens(results[i].gen, results[i].ran)
  <2>1. CASE results = CpuResults(f)
    BY <1>2, <2>1 DEF CpuResults
  <2>2. CASE results = GroupFailed(f)
    BY <2>2 DEF GroupFailed
  <2>3. ASSUME NEW faults \in SUBSET DOMAIN f.members,
               results = [i \in DOMAIN f.members |->
                            IF i \in faults THEN [Executed(f, i) EXCEPT !.outcome = "non_retryable_failure"]
                                            ELSE Executed(f, i)]
        PROVE  /\ DOMAIN results = DOMAIN f.members
               /\ \A i \in DOMAIN f.members : OwnTokens(results[i].gen, results[i].ran)
    BY <1>2, <2>3
  <2>4. QED BY <2>1, <2>2, <2>3 DEF CudaResults
<1>4. QED BY <1>3 DEF AnswerOwn

-----------------------------------------------------------------------------
(* Where the pieces and the answers of a connection come from.             *)

(* What connection k may become: the pieces are old ones, control frames,  *)
(* or of the frame the schedule loop is writing; the answers are old ones, *)
(* or the results for a dispatch that was there to read.                   *)
Sourced(k, l) ==
  /\ \A p \in Range(l.down) : \/ p \in Range(k.down) \/ p.frame.kind # "dispatch"
                              \/ (p.frame = sending.frame /\ sending.phase \in {"built", "half"})
  /\ \A a \in Range(l.up) :
       \/ a \in Range(k.up)
       \/ \E p \in Range(k.down) : \E results \in IF DeviceFaults THEN CudaResults(p.frame) ELSE {CpuResults(p.frame)} :
            p.frame.kind = "dispatch" /\ a = [epoch |-> p.frame.epoch, results |-> results]

LEMMA SameSourced == \A k : Sourced(k, k)
BY DEF Sourced

(* A step that leaves both alone, or takes from them.                      *)
LEMMA TakesFrom ==
  ASSUME Wired, NEW c \in Conn, NEW x, NEW y, NEW z,
         \/ conn' = [conn EXCEPT ![c].thread = x]
         \/ conn' = [conn EXCEPT ![c].thread = x, ![c].proc = y]
         \/ conn' = [conn EXCEPT ![c].thread = x, ![c].boot = y]
         \/ conn' = [conn EXCEPT ![c].reading = x]
         \/ conn' = [conn EXCEPT ![c].reading = x, ![c].up = y] /\ Range(y) \subseteq Range(conn[c].up)
         \/ conn' = [conn EXCEPT ![c].down = x] /\ Range(x) \subseteq Range(conn[c].down)
         \/ conn' = [conn EXCEPT ![c].proc = x, ![c].down = y] /\ Range(y) \subseteq Range(conn[c].down)
         \/ /\ conn' = [conn EXCEPT ![c].proc = x, ![c].down = y, ![c].up = z]
            /\ Range(y) \subseteq Range(conn[c].down) /\ Range(z) \subseteq Range(conn[c].up)
  PROVE  \A e \in Conn : Sourced(conn[e], conn'[e])
<1> DEFINE k == conn[c]
<1>1. DOMAIN conn = Conn /\ DOMAIN k = Fields
  BY DEF Wired
<1>2. /\ \A e \in Conn \ {c} : conn'[e] = conn[e]
      /\ \/ conn'[c] = [k EXCEPT !.thread = x]
         \/ conn'[c] = [k EXCEPT !.thread = x, !.proc = y]
         \/ conn'[c] = [k EXCEPT !.thread = x, !.boot = y]
         \/ conn'[c] = [k EXCEPT !.reading = x]
         \/ conn'[c] = [k EXCEPT !.reading = x, !.up = y] /\ Range(y) \subseteq Range(k.up)
         \/ conn'[c] = [k EXCEPT !.down = x] /\ Range(x) \subseteq Range(k.down)
         \/ conn'[c] = [k EXCEPT !.proc = x, !.down = y] /\ Range(y) \subseteq Range(k.down)
         \/ /\ conn'[c] = [k EXCEPT !.proc = x, !.down = y, !.up = z]
            /\ Range(y) \subseteq Range(k.down) /\ Range(z) \subseteq Range(k.up)
  BY <1>1
<1> HIDE DEF k
<1>3. \/ conn'[c].down = k.down /\ conn'[c].up = k.up
      \/ conn'[c].down = k.down /\ conn'[c].up = y /\ Range(y) \subseteq Range(k.up)
      \/ conn'[c].down = x /\ conn'[c].up = k.up /\ Range(x) \subseteq Range(k.down)
      \/ conn'[c].down = y /\ conn'[c].up = k.up /\ Range(y) \subseteq Range(k.down)
      \/ /\ conn'[c].down = y /\ conn'[c].up = z
         /\ Range(y) \subseteq Range(k.down) /\ Range(z) \subseteq Range(k.up)
  BY ONLY <1>1, <1>2, ZenonT(60) DEF Fields
<1>4. Range(conn'[c].down) \subseteq Range(k.down) /\ Range(conn'[c].up) \subseteq Range(k.up)
  BY ONLY <1>3, ZenonT(60)
<1>5. QED BY <1>2, <1>4 DEF Sourced, k

(* A step that writes a piece.                                             *)
LEMMA WritesTo ==
  ASSUME AllStocked, NEW c \in Conn, NEW piece, NEW y,
         \/ conn' = [conn EXCEPT ![c] = Written(@, piece)]
         \/ conn' = [conn EXCEPT ![c] = [Written(@, piece) EXCEPT !.thread = y]]
         \/ conn' = [conn EXCEPT ![c] = [Written(@, piece) EXCEPT !.thread = y, !.reading = NoResults]],
         \/ piece.frame.kind # "dispatch"
         \/ piece.frame = sending.frame /\ sending.phase \in {"built", "half"}
  PROVE  \A e \in Conn : Sourced(conn[e], conn'[e])
<1> DEFINE k == conn[c]
           l == Written(k, piece)
           d == Append(k.down, piece)
<1>1. DOMAIN conn = Conn /\ DOMAIN k = Fields /\ IsSequence(k.down)
  BY DEF AllStocked, Wired, Stocked
<1>2. /\ \A e \in Conn \ {c} : conn'[e] = conn[e]
      /\ \/ conn'[c] = l
         \/ conn'[c] = [l EXCEPT !.thread = y]
         \/ conn'[c] = [l EXCEPT !.thread = y, !.reading = NoResults]
  BY <1>1
<1>3. l = k \/ l = [k EXCEPT !.down = d]
  BY DEF Written
<1>4. Range(d) = Range(k.down) \cup {piece}
  BY <1>1, AppendIsSequence
<1> HIDE DEF k, l, d
<1>5. DOMAIN l = Fields /\ l.up = k.up /\ (l.down = k.down \/ l.down = d)
  BY ONLY <1>1, <1>3, ZenonT(60) DEF Fields
<1>6. conn'[c].up = k.up /\ (conn'[c].down = k.down \/ conn'[c].down = d)
  BY ONLY <1>2, <1>5, ZenonT(60) DEF Fields
<1>7. Sourced(k, conn'[c])
  BY <1>4, <1>6 DEF Sourced
<1>8. QED BY <1>2, <1>7, SameSourced DEF k

LEMMA ServesFrom ==
  ASSUME AllStocked, NEW c \in Conn, ServeDispatch(c)
  PROVE  \A e \in Conn : Sourced(conn[e], conn'[e])
<1> DEFINE k == conn[c]
           p == k.down[1]
           f == Head(k.down).frame
           rest == SubSeq(k.down, 3, Len(k.down))
<1>1. PICK results \in IF DeviceFaults THEN CudaResults(f) ELSE {CpuResults(f)} :
        conn' = [conn EXCEPT ![c].down = rest, ![c].up = Append(k.up, [epoch |-> f.epoch, results |-> results])]
  BY DEF ServeDispatch
<1>2. Whole(k.down) /\ f.kind = "dispatch"
  BY DEF ServeDispatch
<1>3. DOMAIN conn = Conn /\ DOMAIN k = Fields /\ Stocked(k)
  BY DEF AllStocked, Wired
<1> DEFINE a == [epoch |-> f.epoch, results |-> results]
           more == Append(k.up, a)
<1>4. Head(k.down) = p /\ p \in Range(k.down) /\ Range(rest) \subseteq Range(k.down)
  <2>1. Len(k.down) >= 2 /\ IsSequence(k.down)
    BY <1>2, <1>3 DEF Whole, Stocked
  <2>2. Range(k.down) = {p, k.down[2]} \cup Range(rest)
    BY <2>1, RestIsSequence
  <2>3. QED BY <1>2, <1>3, <2>2, FrameRead
<1>5. Range(more) = Range(k.up) \cup {a}
  BY <1>3, AppendIsSequence DEF Stocked
<1>6. conn' = [conn EXCEPT ![c].down = rest, ![c].up = more]
  BY <1>1
<1> HIDE DEF rest, more
<1>7. /\ \A e \in Conn \ {c} : conn'[e] = conn[e]
      /\ conn'[c] = [k EXCEPT !.down = rest, !.up = more]
  BY ONLY <1>3, <1>6, ZenonT(60)
<1> HIDE DEF k
<1>8. conn'[c].down = rest /\ conn'[c].up = more
  BY ONLY <1>3, <1>7, ZenonT(60) DEF Fields
<1>9. f = p.frame
  BY <1>4
<1> HIDE DEF p, f
<1>10. Sourced(k, conn'[c])
  BY <1>1, <1>2, <1>4, <1>5, <1>8, <1>9 DEF Sourced
<1>11. QED BY <1>7, <1>10, SameSourced DEF k

(* Every step.                                                             *)
LEMMA ContentsSourced ==
  ASSUME Carrying, [NetNext]_allVars
  PROVE  \A e \in Conn : Sourced(conn[e], conn'[e])
<1>1. AllStocked /\ Wired
  BY DEF Carrying, Sound, AllStocked
<1>2. conn' = conn => \A e \in Conn : Sourced(conn[e], conn'[e])
  BY DEF Sourced
<1>3. ASSUME NEW c \in Conn, Connect(c) \/ StoreSocket(c) \/ Register(c) \/ ReportResult(c) \/ ConnectionEnds(c)
      PROVE  \A e \in Conn : Sourced(conn[e], conn'[e])
  <2>1. \E x, y : \/ conn' = [conn EXCEPT ![c].thread = x]
                  \/ conn' = [conn EXCEPT ![c].thread = x, ![c].proc = y]
                  \/ conn' = [conn EXCEPT ![c].thread = x, ![c].boot = y]
                  \/ conn' = [conn EXCEPT ![c].reading = x]
    BY <1>3 DEF Connect, StoreSocket, Register, ReportResult, ConnectionEnds
  <2>2. QED BY <1>1, <2>1, TakesFrom
<1>4. ASSUME NEW c \in Conn, ReadCompletion(c) \/ ProcessEnds(c)
      PROVE  \A e \in Conn : Sourced(conn[e], conn'[e])
  <2> DEFINE k == conn[c]
  <2>1. IsSequence(k.up) /\ Range(<<>>) \subseteq Range(k.down)
    BY <1>1, EmptyIsSequence DEF AllStocked, Stocked
  <2>2. CASE ReadCompletion(c)
    <3>1. k.up # <<>> /\ conn' = [conn EXCEPT ![c].reading = Head(k.up), ![c].up = Tail(k.up)]
      BY <2>2 DEF ReadCompletion
    <3>2. Range(Tail(k.up)) \subseteq Range(k.up)
      BY <2>1, <3>1, TailIsSequence
    <3>3. QED BY <1>1, <3>1, <3>2, TakesFrom
  <2>3. CASE ProcessEnds(c)
    <3>1. PICK n \in 0 .. Len(k.up) :
            conn' = [conn EXCEPT ![c].proc = "gone", ![c].down = <<>>, ![c].up = SubSeq(k.up, 1, n)]
      BY <2>3 DEF ProcessEnds
    <3>2. Range(SubSeq(k.up, 1, n)) \subseteq Range(k.up)
      BY <2>1, PrefixIsSequence
    <3>3. QED BY <1>1, <2>1, <3>1, <3>2, TakesFrom
  <2>4. QED BY <1>4, <2>2, <2>3
<1>5. ASSUME NEW c \in Conn, ReadAck(c) \/ IgnoreFrame(c) \/ LoseStep(c)
      PROVE  \A e \in Conn : Sourced(conn[e], conn'[e])
  <2> DEFINE k == conn[c]
             rest == SubSeq(k.down, 3, Len(k.down))
  <2>1. Stocked(k) /\ Range(<<>>) \subseteq Range(k.down)
    BY <1>1, EmptyIsSequence DEF AllStocked
  <2>2. CASE ReadAck(c) \/ IgnoreFrame(c)
    <3>1. /\ Whole(k.down)
          /\ \/ conn' = [conn EXCEPT ![c].proc = "serving", ![c].down = rest]
             \/ conn' = [conn EXCEPT ![c].down = rest]
      BY <2>2 DEF ReadAck, IgnoreFrame
    <3>2. Range(rest) \subseteq Range(k.down)
      BY <2>1, <3>1, FrameRead
    <3> HIDE DEF rest
    <3>3. QED BY <1>1, <3>1, <3>2, TakesFrom
  <2>3. CASE LoseStep(c)
    <3>1. \E x : conn' = [conn EXCEPT ![c].proc = x, ![c].down = <<>>]
      BY <2>3 DEF LoseStep
    <3>2. QED BY <1>1, <2>1, <3>1, TakesFrom
  <2>4. QED BY <1>5, <2>2, <2>3
<1>6. ASSUME NEW c \in Conn, AckHead(c) \/ AckBody(c) \/ RefuseResult(c) \/ ErrorBody(c)
      PROVE  \A e \in Conn : Sourced(conn[e], conn'[e])
  <2>1. \A kind \in {"ack", "error"} : /\ HeadOf(Control(kind)).frame.kind # "dispatch"
                                       /\ BodyOf(Control(kind)).frame.kind # "dispatch"
    BY DEF HeadOf, BodyOf, Control
  <2>2. \E kind \in {"ack", "error"} : \E piece \in {HeadOf(Control(kind)), BodyOf(Control(kind))} : \E y :
          \/ conn' = [conn EXCEPT ![c] = [Written(@, piece) EXCEPT !.thread = y]]
          \/ conn' = [conn EXCEPT ![c] = [Written(@, piece) EXCEPT !.thread = y, !.reading = NoResults]]
    BY <1>6 DEF AckHead, AckBody, RefuseResult, ErrorBody
  <2>3. PICK piece, y :
          /\ \E kind \in {"ack", "error"} : piece \in {HeadOf(Control(kind)), BodyOf(Control(kind))}
          /\ \/ conn' = [conn EXCEPT ![c] = [Written(@, piece) EXCEPT !.thread = y]]
             \/ conn' = [conn EXCEPT ![c] = [Written(@, piece) EXCEPT !.thread = y, !.reading = NoResults]]
    BY <2>2
  <2>4. piece.frame.kind # "dispatch"
    BY <2>1, <2>3
  <2>5. QED BY ONLY <1>1, <2>3, <2>4, c \in Conn, WritesTo, ZenonT(60)
<1>7. ASSUME NEW c \in Conn, Connect(c) \/ ThreadStep(c) \/ ProcessStep(c) \/ ProcessEnds(c)
      PROVE  \A e \in Conn : Sourced(conn[e], conn'[e])
  BY <1>1, <1>3, <1>4, <1>5, <1>6, <1>7, ServesFrom DEF ThreadStep, ProcessStep
<1>8. CASE WriteHead \/ WriteBody
  <2>1. sending.phase \in {"built", "half"} /\ sending.conn \in Conn
    BY <1>8, FrameSent DEF WriteHead, WriteBody
  <2>2. HeadOf(sending.frame).frame = sending.frame /\ BodyOf(sending.frame).frame = sending.frame
    BY DEF HeadOf, BodyOf
  <2>3. CASE WriteHead
    <3>1. conn' = [conn EXCEPT ![sending.conn] = Written(@, HeadOf(sending.frame))]
      BY <2>3 DEF WriteHead
    <3>2. QED BY ONLY <1>1, <2>1, <2>2, <3>1, WritesTo, ZenonT(60)
  <2>4. CASE WriteBody
    <3>1. conn' = [conn EXCEPT ![sending.conn] = Written(@, BodyOf(sending.frame))]
      BY <2>4 DEF WriteBody
    <3>2. QED BY ONLY <1>1, <2>1, <2>2, <3>1, WritesTo, ZenonT(60)
  <2>5. QED BY <1>8, <2>3, <2>4
<1>9. CASE \/ UNCHANGED allVars \/ Start \/ ScheduleCycle \/ FindSocket \/ BuildFrame \/ WriteFails
           \/ DispatchFails \/ RollEpochCall \/ TimePasses
           \/ \E k \in Client : SubmitRequest(k) \/ \E r \in Request : SubmitTokens(k, r)
           \/ \E r \in Request : CancelRequest(r)
  BY <1>2, <1>9 DEF allVars, netVars, Start, ScheduleCycle, FindSocket, BuildFrame, WriteFails,
     DispatchFails, RollEpochCall, TimePasses, SubmitRequest, SubmitTokens, CancelRequest
<1>10. QED BY <1>7, <1>8, <1>9 DEF NetNext, ScheduleStep

(* The buffers, the groups to send, the frames and the answers.            *)
TokenInv ==
  /\ DOMAIN tokens = Request /\ \A r \in Request : tokens[r] \in PromptLengths[r] \cup {None}
  /\ \A e \in Range(batch) : \A g \in Range(e.members) : Named(g)
  /\ sending.phase \in {"built", "half"} => FrameCut(sending.frame)
  /\ \A c \in Conn : /\ \A p \in Range(conn[c].down) : FrameCut(p.frame)
                     /\ \A a \in Range(conn[c].up) : AnswerOwn(a)

LEMMA TokenInit == NetInit => TokenInv
<1> SUFFICES ASSUME NetInit PROVE TokenInv
  OBVIOUS
<1>1. DOMAIN tokens = Request /\ \A r \in Request : tokens[r] \in PromptLengths[r] \cup {None}
  BY DEF NetInit
<1>2. batch = <<>> /\ sending.phase = "idle" /\ \A c \in Conn : conn[c].down = <<>> /\ conn[c].up = <<>>
  BY DEF NetInit, Idle
<1>3. QED BY <1>1, <1>2, EmptyIsSequence DEF TokenInv

LEMMA TokenStep ==
  ASSUME Carrying, [NetNext]_allVars, TokenInv, Measured, DispatchesKept,
         \A d, e \in issued : d.gen = e.gen => d = e,
         ScheduleCycle => \A e \in Range(batch') : \A g \in Range(e.members) : Named(g)'
  PROVE  TokenInv'
<1>1. /\ \A g : Named(g) => Named(g)'
      /\ \A f : FrameCut(f) => FrameCut(f)'
      /\ \A a : AnswerOwn(a) => AnswerOwn(a)'
  BY OwnKept
<1>2. DOMAIN tokens' = Request /\ \A r \in Request : tokens'[r] \in PromptLengths[r] \cup {None}
  <2>1. CASE tokens' = tokens
    BY <2>1 DEF TokenInv
  <2>2. ASSUME NEW k \in Client, NEW r \in Request, SubmitTokens(k, r)
        PROVE  DOMAIN tokens' = Request /\ \A q \in Request : tokens'[q] \in PromptLengths[q] \cup {None}
    <3>1. PICK n \in PromptLengths[r] : tokens' = [tokens EXCEPT ![r] = n]
      BY <2>2 DEF SubmitTokens
    <3>2. QED BY <3>1 DEF TokenInv
  <2>3. ASSUME NEW c \in Conn, Connect(c) \/ ThreadStep(c) \/ ProcessStep(c) \/ ProcessEnds(c)
        PROVE  tokens' = tokens
    BY <2>3 DEF Connect, ThreadStep, StoreSocket, Register, AckHead, AckBody, ReadCompletion, ReportResult,
       RefuseResult, ErrorBody, ConnectionEnds, ProcessStep, ReadAck, ServeDispatch, IgnoreFrame, LoseStep,
       ProcessEnds
  <2>4. CASE ScheduleStep
    BY <2>1, <2>4 DEF ScheduleStep, ScheduleCycle, FindSocket, BuildFrame, WriteHead, WriteBody, WriteFails,
       DispatchFails
  <2>5. CASE \/ UNCHANGED allVars \/ Start \/ RollEpochCall \/ TimePasses
             \/ \E k \in Client : SubmitRequest(k)
             \/ \E r \in Request : CancelRequest(r)
    BY <2>1, <2>5 DEF allVars, netVars, Start, RollEpochCall, TimePasses, SubmitRequest, CancelRequest
  <2>6. QED BY <2>1, <2>2, <2>3, <2>4, <2>5 DEF NetNext
<1>3. batch \in Seq(UnsentType) /\ SendingOK
  BY DEF Carrying, Held, Sound
<1>4. batch # <<>> => Range(Tail(batch)) \subseteq Range(batch) /\ Head(batch) \in Range(batch) /\ Head(batch) \in UnsentType
  BY <1>3, SMTT(20) DEF Range
<1>5. \A e \in Range(batch') : \A g \in Range(e.members) : Named(g)'
  <2>1. CASE ScheduleCycle
    BY <2>1
  <2>2. CASE ~ScheduleCycle
    <3>1. batch' = batch \/ (batch' = Tail(batch) /\ batch # <<>>)
      <4>1. ASSUME NEW c \in Conn, Connect(c) \/ ThreadStep(c) \/ ProcessStep(c) \/ ProcessEnds(c)
            PROVE  batch' = batch
        BY <4>1 DEF Connect, ThreadStep, StoreSocket, Register, AckHead, AckBody, ReadCompletion, ReportResult,
           RefuseResult, ErrorBody, ConnectionEnds, ProcessStep, ReadAck, ServeDispatch, IgnoreFrame, LoseStep,
           ProcessEnds
      <4>2. CASE FindSocket \/ BuildFrame \/ WriteHead \/ WriteFails
        BY <4>2 DEF FindSocket, BuildFrame, WriteHead, WriteFails
      <4>3. CASE WriteBody \/ DispatchFails
        BY <4>3 DEF WriteBody, DispatchFails, Carrying, Held
      <4>4. CASE \/ UNCHANGED allVars \/ Start \/ RollEpochCall \/ TimePasses
                 \/ \E k \in Client : SubmitRequest(k) \/ \E r \in Request : SubmitTokens(k, r)
                 \/ \E r \in Request : CancelRequest(r)
        BY <4>4 DEF allVars, netVars, Start, RollEpochCall, TimePasses, SubmitRequest, SubmitTokens,
           CancelRequest
      <4>5. QED BY <2>2, <4>1, <4>2, <4>3, <4>4 DEF NetNext, ScheduleStep
    <3>2. Range(batch') \subseteq Range(batch)
      BY <1>4, <3>1
    <3>3. QED BY <1>1, <3>2 DEF TokenInv
  <2>3. QED BY <2>1, <2>2
<1>6. sending'.phase \in {"built", "half"} => FrameCut(sending.frame)'
  <2>1. DOMAIN sending = {"phase", "conn", "frame"}
    BY <1>3 DEF SendingOK
  <2>2. CASE sending' = sending
    BY <1>1, <2>2 DEF TokenInv
  <2>3. CASE sending' = Idle \/ FindSocket \/ WriteFails
    <3>1. sending'.phase \notin {"built", "half"}
      <4>1. CASE sending' = Idle
        BY <4>1 DEF Idle
      <4>2. CASE FindSocket
        BY <4>2 DEF FindSocket, Idle
      <4>3. CASE WriteFails
        <5>1. sending' = [sending EXCEPT !.phase = "failed"]
          BY <4>3 DEF WriteFails
        <5>2. QED BY ONLY <2>1, <5>1, ZenonT(60)
      <4>4. QED BY <2>3, <4>1, <4>2, <4>3
    <3>2. QED BY <3>1
  <2>4. CASE WriteHead
    <3>1. sending.phase = "built" /\ sending' = [sending EXCEPT !.phase = "half"]
      BY <2>4 DEF WriteHead
    <3>2. sending'.frame = sending.frame
      BY ONLY <2>1, <3>1, ZenonT(60)
    <3>3. QED BY <1>1, <3>1, <3>2 DEF TokenInv
  <2>5. CASE BuildFrame
    <3> DEFINE members == Head(batch).members
               f == DispatchFrame(members)
    <3>1. /\ sending.phase = "found" /\ batch # <<>>
          /\ \/ BuffersCover(members) /\ sending' = [sending EXCEPT !.phase = "built", !.frame = f]
             \/ sending' = [sending EXCEPT !.phase = "failed"]
      BY <2>5 DEF BuildFrame, Carrying, Held
    <3>2. members \in Seq(Nat) /\ \A g \in Range(members) : Named(g)
      BY <1>4, <3>1 DEF UnsentType, TokenInv
    <3>3. BuffersCover(members) => FrameCut(f)
      BY <3>2, BuiltOwn DEF TokenInv
    <3> HIDE DEF f
    <3>4. \/ BuffersCover(members) /\ sending'.frame = f
          \/ sending'.phase = "failed"
      BY ONLY <2>1, <3>1, ZenonT(60)
    <3>5. QED BY <1>1, <3>3, <3>4
  <2>6. ASSUME NEW c \in Conn, Connect(c) \/ ThreadStep(c) \/ ProcessStep(c) \/ ProcessEnds(c)
        PROVE  sending' = sending
    BY <2>6 DEF Connect, ThreadStep, StoreSocket, Register, AckHead, AckBody, ReadCompletion, ReportResult,
       RefuseResult, ErrorBody, ConnectionEnds, ProcessStep, ReadAck, ServeDispatch, IgnoreFrame, LoseStep,
       ProcessEnds
  <2>7. CASE ScheduleCycle \/ WriteBody \/ DispatchFails
    BY <2>2, <2>3, <2>7 DEF ScheduleCycle, WriteBody, DispatchFails
  <2>8. CASE \/ UNCHANGED allVars \/ Start \/ RollEpochCall \/ TimePasses
             \/ \E k \in Client : SubmitRequest(k) \/ \E r \in Request : SubmitTokens(k, r)
             \/ \E r \in Request : CancelRequest(r)
    BY <2>2, <2>8 DEF allVars, netVars, Start, RollEpochCall, TimePasses, SubmitRequest, SubmitTokens,
       CancelRequest
  <2>9. QED BY <2>2, <2>3, <2>4, <2>5, <2>6, <2>7, <2>8 DEF NetNext, ScheduleStep
<1>7. ASSUME NEW c \in Conn
      PROVE  /\ \A p \in Range(conn'[c].down) : FrameCut(p.frame)'
             /\ \A a \in Range(conn'[c].up) : AnswerOwn(a)'
  <2>1. Sourced(conn[c], conn'[c])
    BY ContentsSourced
  <2>2. /\ \A p \in Range(conn[c].down) : FrameCut(p.frame)
        /\ \A a \in Range(conn[c].up) : AnswerOwn(a)
        /\ sending.phase \in {"built", "half"} => FrameCut(sending.frame)
    BY DEF TokenInv
  <2>3. \A p \in Range(conn'[c].down) : FrameCut(p.frame)
    BY <2>1, <2>2 DEF Sourced, FrameCut
  <2>4. \A a \in Range(conn'[c].up) : AnswerOwn(a)
    <3> SUFFICES ASSUME NEW a \in Range(conn'[c].up), a \notin Range(conn[c].up)
                 PROVE  AnswerOwn(a)
      BY <2>2
    <3>1. PICK p \in Range(conn[c].down) :
            \E results \in IF DeviceFaults THEN CudaResults(p.frame) ELSE {CpuResults(p.frame)} :
              p.frame.kind = "dispatch" /\ a = [epoch |-> p.frame.epoch, results |-> results]
      BY <2>1 DEF Sourced
    <3>2. FrameCut(p.frame)
      BY <2>2
    <3>3. QED BY <3>1, <3>2, ServedOwn
  <2>5. QED BY <1>1, <2>3, <2>4
<1>8. QED BY <1>2, <1>5, <1>6, <1>7 DEF TokenInv

(* An answer that holds its members' own tokens, in the property's words.  *)
LEMMA OwnAnswers ==
  ASSUME TokenInv, \A d, e \in issued : d.gen = e.gen => d = e
  PROVE  MembersRunTheirTokens
<1>1. ASSUME NEW c \in Conn, NEW f \in Range(conn[c].up), NEW i \in DOMAIN f.results,
             f.results[i].outcome # "retryable_failure"
      PROVE  \E n \in PromptLengths[DispatchOf(f.results[i].gen).req] :
               f.results[i].ran = [j \in 1 .. Count(DispatchOf(f.results[i].gen)) |->
                                     <<DispatchOf(f.results[i].gen).req, n,
                                       From(DispatchOf(f.results[i].gen)) + j>>]
  <2> DEFINE g == f.results[i].gen
             s == f.results[i].ran
  <2>1. OwnTokens(g, s)
    BY <1>1 DEF TokenInv, AnswerOwn
  <2> HIDE DEF g, s
  <2>2. PICK d \in issued : d.gen = g /\ \E n \in PromptLengths[d.req] :
                              s = [j \in 1 .. Count(d) |-> <<d.req, n, From(d) + j>>]
    BY <2>1 DEF OwnTokens
  <2>3. DispatchOf(g) = d
    <3>1. DispatchOf(g) \in issued /\ DispatchOf(g).gen = g
      BY <2>2 DEF DispatchOf
    <3>2. QED BY <2>2, <3>1
  <2>4. QED BY ONLY <2>2, <2>3, ZenonT(60) DEF g, s
<1>2. QED BY ONLY <1>1, ZenonT(60) DEF MembersRunTheirTokens
=============================================================================
